---- MODULE Spec2Model ----
(***************************************************************************)
(* Pogona: the simulation kernel's two simulation loops (legacy and        *)
(* adaptive Runge-Kutta-Fehlberg time stepping) together with the molecule *)
(* manager's buffered insertions and deletions.                            *)
(*                                                                         *)
(* Time and error are floating point numbers in the program.  Here time is *)
(* counted in ticks (TicksPerBaseStep ticks per base time step), the error *)
(* of an integrator attempt is delta_time * roughness as computed by       *)
(* EmbeddedRungeKuttaMethod.compute (error = dt * (s - s_low)), and np.inf *)
(* is the integer Inf, larger than every finite quantity of the model.     *)
(***************************************************************************)
EXTENDS Integers, Sequences, FiniteSets, TLC

\* ------------------------------------------------------------------ bounds
TicksPerBaseStep == 4
MaxBaseSteps == 3
MaxMolecules == 2
MaxCorrectionsLimit == 1
MaxDestructingSensors == 2
MaxSubSteps == 5
MaxAddCalls == 3

\* --------------------------------------------------------------- constants
Inf == 1000000
rkf_order == 5
SafetyFactorNum == 17
SafetyFactorDen == 20
RootScale == 8
RootMax == 16

base_delta_time == TicksPerBaseStep

\* Configurations the kernel is started with.
Thresholds == {0, base_delta_time, Inf}
CorrectionsLimits == 0..MaxCorrectionsLimit
InitialSimTimes == {0, base_delta_time}
SimTimeLimits == {0, MaxBaseSteps * base_delta_time}

\* Integration
IntegrationMethods == {"EULER", "RUNGE_KUTTA_4", "RUNGE_KUTTA_FEHLBERG",
                       "RUNGE_KUTTA_FEHLBERG_4", "RUNGE_KUTTA_FEHLBERG_45"}

EmbeddedMethods == {"RUNGE_KUTTA_FEHLBERG", "RUNGE_KUTTA_FEHLBERG_4",
                    "RUNGE_KUTTA_FEHLBERG_45"}

\* The methods the kernel is run with in Spec: one that is not embedded
\* and one that is; SpecMethods runs all of them.
KernelMethods == {"EULER", "RUNGE_KUTTA_FEHLBERG"}

\* What the flow field yields for one integrator call: the speed of the
\* displacement (one length unit per tick) and the roughness |s - s_low|
\* of the embedded pair.
FlowSamples == { [speed |-> 1, rough |-> 0],
                 [speed |-> 1, rough |-> 2],
                 [speed |-> 1, rough |-> 16] }

VARIABLES
    \* SimulationKernel properties (configuration)
    use_adaptive_time_stepping,
    adaptive_time_max_error_threshold,
    adaptive_time_corrections_limit,
    sim_time_limit,
    \* MoleculeManager property (configuration)
    update_molecule_collection_immediately,
    \* MovementPredictor property (configuration)
    integration_method,
    \* SimulationKernel state
    sim_time,
    elapsed_base_time_steps,
    elapsed_sub_time_steps,
    pc,
    \* MoleculeManager state
    molecules,
    total_counter,
    molecules_to_add,
    molecules_to_destroy,
    \* the traversal of one base step
    keys,
    idx,
    \* locals of _advance_molecule_to_next_base_step and _update_molecule
    sub_sim_time,
    sim_time_next,
    error,
    num_corrections,
    delta_time,
    new_pos_global,
    exponent,
    num_steps,
    \* observations
    warned,
    log,
    notify_rounds,
    base_steps,
    sim_time_before,
    sim_time_initial,
    \* one call of a library function: what is called with which arguments,
    \* and what it returned
    call,
    result,
    \* the components attached to the kernel, in the order of attachment,
    \* and the position of notify_components_new_time_step in its two loops
    components,
    notification,
    \* the fields of a BitstreamGenerator, a ModulationOOK, an Injector and
    \* an ObjectPumpVolume
    generator,
    modulation,
    injector,
    pump,
    \* what the components were seen to do
    observed

configVars == << use_adaptive_time_stepping, adaptive_time_max_error_threshold,
                 adaptive_time_corrections_limit, sim_time_limit,
                 update_molecule_collection_immediately, integration_method >>
componentVars == << components, notification, generator, modulation,
                   injector, pump, observed >>
\* call and result, and what no step of the simulation loops writes
libraryVars == << call, result, componentVars, elapsed_sub_time_steps >>
managerVars == << molecules, total_counter, molecules_to_add,
                  molecules_to_destroy >>
localVars == << sub_sim_time, sim_time_next, error, num_corrections,
                delta_time, new_pos_global, exponent, num_steps >>
vars == << configVars, sim_time, elapsed_base_time_steps, pc, managerVars,
           keys, idx, localVars, warned, log, notify_rounds, base_steps,
           sim_time_before, sim_time_initial, libraryVars >>

\* ----------------------------------------------------------------- helpers
Min(a, b) == IF a <= b THEN a ELSE b

Abs(a) == IF a < 0 THEN -a ELSE a

\* float addition with np.inf absorbing
Plus(a, b) == IF a = Inf \/ b = Inf THEN Inf ELSE a + b

\* a counter of the program, followed up to a bound
CountUpTo(n, bound) == IF n < bound THEN n + 1 ELSE n

RECURSIVE Pow(_, _)
Pow(b, e) == IF e = 0 THEN 1 ELSE b * Pow(b, e - 1)

\* a tolerance of a whole tick
IsCloseLoose(a, b) == Abs(a - b) <= 1

\* np.isclose(a, b, rtol=1e-10, atol=1e-15): |a - b| <= atol + rtol * |b|.
\* Two times that differ differ by a whole tick, which is beyond the
\* tolerance; np.isclose(inf, inf) is True.
IsClose(a, b) == a = b

RECURSIVE SortedSeq(_)
SortedSeq(S) ==
    IF S = {} THEN << >>
    ELSE LET m == CHOOSE x \in S : \A y \in S : x <= y
         IN  << m >> \o SortedSeq(S \ {m})

Restrict(f, S) == [x \in S |-> f[x]]

\* object_id of a molecule that is in no object (None)
NoObject == -1

\* Molecule.__init__
NewMolecule(position, velocity, object_id) ==
    [id |-> -1, position |-> position, velocity |-> velocity,
     object_id |-> object_id, delta_time_opt |-> Inf]

\* ------------------------------------------------------- molecule manager
\* MoleculeManager.add_molecule: the new state of the manager
AddMolecule(mgr, molecule) ==
    IF update_molecule_collection_immediately
    THEN [mgr EXCEPT
            !.molecules = [k \in DOMAIN mgr.molecules \cup {mgr.total_counter}
                |-> IF k = mgr.total_counter
                    THEN [molecule EXCEPT !.id = mgr.total_counter]
                    ELSE mgr.molecules[k]],
            !.total_counter = mgr.total_counter + 1]
    ELSE [mgr EXCEPT !.to_add = Append(mgr.to_add, molecule)]

\* MoleculeManager.destroy_molecule; dict.pop of a missing key raises
DestroyMolecule(mgr, id) ==
    IF update_molecule_collection_immediately
    THEN IF id \in DOMAIN mgr.molecules
         THEN [mgr EXCEPT !.molecules =
                    Restrict(mgr.molecules, DOMAIN mgr.molecules \ {id})]
         ELSE [mgr EXCEPT !.raised = TRUE]
    ELSE [mgr EXCEPT !.to_destroy = Append(mgr.to_destroy, id)]

\* MoleculeManager.update_molecule
UpdateMolecule(ms, molecule) ==
    [k \in DOMAIN ms \cup {molecule.id} |->
        IF k = molecule.id THEN molecule ELSE ms[k]]

\* the first loop of apply_changes: pop every molecule queued for
\* destruction, stopping at the first KeyError
RECURSIVE PopEach(_, _)
PopEach(ms, ds) ==
    IF ds = << >> THEN [molecules |-> ms, raised |-> FALSE]
    ELSE IF Head(ds) \notin DOMAIN ms THEN [molecules |-> ms, raised |-> TRUE]
    ELSE PopEach(Restrict(ms, DOMAIN ms \ {Head(ds)}), Tail(ds))

\* ids from the number of live molecules instead of the running counter
RECURSIVE InsertEachByLen(_, _, _)
InsertEachByLen(ms, counter, as) ==
    IF as = << >> THEN [molecules |-> ms, total_counter |-> counter]
    ELSE LET n == Cardinality(DOMAIN ms)
         IN  InsertEachByLen(
                [k \in DOMAIN ms \cup {n} |->
                    IF k = n THEN [Head(as) EXCEPT !.id = n] ELSE ms[k]],
                counter + 1, Tail(as))

\* the second loop of apply_changes: ids from the running counter
RECURSIVE InsertEach(_, _, _)
InsertEach(ms, counter, as) ==
    IF as = << >> THEN [molecules |-> ms, total_counter |-> counter]
    ELSE InsertEach(
            [k \in DOMAIN ms \cup {counter} |->
                IF k = counter THEN [Head(as) EXCEPT !.id = counter]
                ELSE ms[k]],
            counter + 1, Tail(as))

\* MoleculeManager.apply_changes
ApplyChangesTo(mgr) ==
    LET popped == PopEach(mgr.molecules, mgr.to_destroy)
        inserted == InsertEach(popped.molecules, mgr.total_counter, mgr.to_add)
    IN  IF popped.raised
        THEN [mgr EXCEPT !.molecules = popped.molecules, !.raised = TRUE]
        ELSE [molecules |-> inserted.molecules,
              total_counter |-> inserted.total_counter,
              to_add |-> << >>, to_destroy |-> << >>, raised |-> FALSE]

Manager == [molecules |-> molecules, total_counter |-> total_counter,
            to_add |-> molecules_to_add, to_destroy |-> molecules_to_destroy,
            raised |-> FALSE]

SetManager(mgr) ==
    /\ molecules' = mgr.molecules
    /\ total_counter' = mgr.total_counter
    /\ molecules_to_add' = mgr.to_add
    /\ molecules_to_destroy' = mgr.to_destroy

\* ------------------------------------------------------------- predictor
\* MovementPredictor.initialize: the embedded integrator of the method
AlwaysEmbedded(method) == "RKFehlberg45"

EmbeddedIntegrator(method) ==
    IF method \in EmbeddedMethods THEN "RKFehlberg45" ELSE "None"

PredictByFlowOnly(method, molecule, dt, sample, update_molecule) ==
    LET inside == molecule.object_id # NoObject
        new_pos == IF inside THEN molecule.position + dt * sample.speed
                   ELSE molecule.position
    IN  [molecule |-> [molecule EXCEPT !.position =
                        IF ~inside \/ update_molecule THEN new_pos ELSE @],
         new_pos_global |-> new_pos,
         error |-> IF inside /\ method \in EmbeddedMethods
                   THEN dt * sample.rough ELSE 0]

\* MovementPredictor.predict: the molecule as the call leaves it, the new
\* position and the error.  Inside an object the flow displaces the
\* molecule by dt * speed; the embedded methods also form the low order
\* position and the norm of the difference, dt * (s - s_low), and
\* RUNGE_KUTTA_FEHLBERG_4 moves to the low order position.  Without an
\* object new_pos_global is the array molecule.position itself, and the
\* velocity term is added to it in place.
Predict(method, molecule, dt, sample, update_molecule) ==
    LET inside == molecule.object_id # NoObject
        embedded == inside /\ method \in EmbeddedMethods
        by_flow ==
            IF ~inside THEN molecule.position
            ELSE IF method = "RUNGE_KUTTA_FEHLBERG_4"
            THEN molecule.position + dt * sample.speed - dt * sample.rough
            ELSE molecule.position + dt * sample.speed
        new_pos == by_flow + molecule.velocity * dt
    IN  [molecule |-> [molecule EXCEPT !.position =
                        IF ~inside \/ update_molecule THEN new_pos ELSE @],
         new_pos_global |-> new_pos,
         error |-> IF embedded THEN dt * sample.rough ELSE 0]

\* ------------------------------------------------------ step size control
\* floor(RootScale * (threshold / err) ^ (1 / n)), for err > 0
ScaledRoot(n, threshold, err) ==
    LET x == (threshold * Pow(RootScale, n)) \div err
    IN  CHOOSE r \in 0..RootMax :
            /\ Pow(r, n) <= x
            /\ r = RootMax \/ Pow(r + 1, n) > x

\* safety_factor * dt * (threshold / err) ** (1 / n), to the nearest tick
OptimalStepSize(dt, threshold, err, n) ==
    IF threshold = Inf THEN Inf
    ELSE (2 * SafetyFactorNum * dt * ScaledRoot(n, threshold, err)
            + SafetyFactorDen * RootScale)
         \div (2 * SafetyFactorDen * RootScale)

\* the two exponents exchanged
ExponentForSwapped(err, threshold) ==
    IF err >= threshold THEN rkf_order ELSE rkf_order + 1

\* _exponent of _update_molecule, as the n of 1 / n
ExponentFor(err, threshold) ==
    IF err >= threshold THEN rkf_order + 1 ELSE rkf_order

\* the value _update_molecule stores in molecule.delta_time_opt
DeltaTimeOpt(dt, threshold, err) ==
    IF err = 0 THEN Inf
    ELSE OptimalStepSize(dt, threshold, err, ExponentFor(err, threshold))

\* _delta_time of one attempt
CandidateStep(delta_time_opt, sub, now) ==
    Min(Min(delta_time_opt, base_delta_time),
        Abs(base_delta_time - (sub - now)))

\* the condition of the while loop of _update_molecule
MustAttempt(err, corrections) ==
    /\ err > adaptive_time_max_error_threshold
    /\ corrections <= adaptive_time_corrections_limit

\* the condition of the while loop of _advance_molecule_to_next_base_step
MustAdvance(sub, next) == sub < next /\ ~IsClose(sub, next)

\* the warning one correction early
LimitExceededEarly(corrections) ==
    corrections >= adaptive_time_corrections_limit

\* the condition of the LOG.warning of _update_molecule
LimitExceeded(corrections) == corrections > adaptive_time_corrections_limit

\* one more base step when the limit is reached exactly
MustStepInclusive == sim_time <= sim_time_limit

\* the condition of the while loop of both simulation loops
MustStep == sim_time < sim_time_limit

\* sim_time after a base step
NextSimTime(elapsed) == elapsed * base_delta_time

\* ------------------------------------------------------------------- Init
Event(ev, id) == [ev |-> ev, id |-> id]

IdleLocals ==
    /\ sub_sim_time' = 0
    /\ sim_time_next' = 0
    /\ error' = 0
    /\ num_corrections' = 0
    /\ delta_time' = 0
    /\ new_pos_global' = 0
    /\ exponent' = 0
    /\ num_steps' = 0

\* no library call is under way
Pending == [status |-> "pending"]

NoCall == [fn |-> "none"]

\* no component is attached (SimulationKernel.__init__: _components = dict())
NoComponents ==
    /\ components = << >>
    /\ notification = 1
    /\ generator = [attached |-> FALSE]
    /\ modulation = [attached |-> FALSE]
    /\ injector = [attached |-> FALSE]
    /\ pump = [attached |-> FALSE]
    /\ observed = [attached |-> FALSE]

\* SimulationKernel.__init__, MoleculeManager.__init__ and the locals
KernelCreated ==
    /\ elapsed_base_time_steps = 0
    /\ elapsed_sub_time_steps = 0
    /\ molecules = << >>
    /\ total_counter = 0
    /\ molecules_to_add = << >>
    /\ molecules_to_destroy = << >>
    /\ keys = << >>
    /\ idx = 1
    /\ sub_sim_time = 0
    /\ sim_time_next = 0
    /\ error = 0
    /\ num_corrections = 0
    /\ delta_time = 0
    /\ new_pos_global = 0
    /\ exponent = 0
    /\ num_steps = 0
    /\ warned = FALSE
    /\ log = << >>
    /\ notify_rounds = 0
    /\ base_steps = 0
    /\ sim_time_before = 0
    /\ sim_time_initial = sim_time

Init ==
    /\ use_adaptive_time_stepping \in BOOLEAN
    /\ adaptive_time_max_error_threshold \in Thresholds
    /\ adaptive_time_corrections_limit \in CorrectionsLimits
    /\ sim_time_limit \in SimTimeLimits
    /\ update_molecule_collection_immediately \in BOOLEAN
    /\ integration_method \in KernelMethods
    /\ sim_time \in InitialSimTimes
    /\ pc = "start"
    /\ KernelCreated
    /\ NoComponents
    /\ call = NoCall
    /\ result = Pending

\* ---------------------------------------------------------------- actions
\* SimulationKernel.start up to the first notification: both loops refuse
\* an immediately updated molecule collection (ValueError), and the
\* adaptive loop reads the order of the embedded integrator, which is None
\* for a method that is not embedded (AttributeError)
Start ==
    /\ pc = "start"
    /\ pc' = IF update_molecule_collection_immediately
             THEN "aborted"
             ELSE IF use_adaptive_time_stepping
                     /\ EmbeddedIntegrator(integration_method) = "None"
             THEN "aborted"
             ELSE "notify"
    /\ UNCHANGED << configVars, libraryVars,
                    sim_time, elapsed_base_time_steps,
                    managerVars, keys, idx, localVars, warned, log,
                    notify_rounds, base_steps, sim_time_before, sim_time_initial >>

\* notify_components_new_time_step: an injector may spawn a molecule in
\* the SPAWNING stage (Injector.process_new_time_step)
NotifyComponents ==
    /\ pc = "notify"
    /\ \E n \in 0..1 :
        /\ total_counter + Len(molecules_to_add) + n <= MaxMolecules
        /\ SetManager(IF n = 1 THEN AddMolecule(Manager, NewMolecule(0, 0, 0))
                      ELSE Manager)
    /\ notify_rounds' = notify_rounds + 1
    /\ log' = Append(log, Event("notify", -1))
    /\ pc' = "loop"
    /\ UNCHANGED << configVars, libraryVars,
                    sim_time, elapsed_base_time_steps, keys, idx,
                    localVars, warned, base_steps, sim_time_before, sim_time_initial >>

\* the loop head of simulation_loop_legacy / simulation_loop_adaptive_rkf
LoopCheck ==
    /\ pc = "loop"
    /\ IF MustStep
       THEN /\ keys' = SortedSeq(DOMAIN molecules)
            /\ idx' = 1
            /\ log' = << >>
            /\ base_steps' = base_steps + 1
            /\ sim_time_before' = sim_time
            /\ pc' = "traverse"
       ELSE /\ pc' = "done"
            /\ UNCHANGED << keys, idx, log, base_steps, sim_time_before >>
    /\ UNCHANGED << configVars, libraryVars,
                    sim_time, elapsed_base_time_steps,
                    managerVars, localVars, warned, notify_rounds,
                    sim_time_initial >>

\* SensorManager.process_molecule_moving_before for the next molecule
BeforeMove ==
    /\ pc = "traverse"
    /\ idx <= Len(keys)
    /\ log' = Append(log, Event("before", keys[idx]))
    /\ pc' = "move"
    /\ UNCHANGED << configVars, libraryVars,
                    sim_time, elapsed_base_time_steps,
                    managerVars, keys, idx, localVars, warned, notify_rounds,
                    base_steps, sim_time_before, sim_time_initial >>

\* simulation_loop_legacy: one predict over the whole base step, then
\* update_molecule
LegacyPredict ==
    /\ pc = "move"
    /\ ~use_adaptive_time_stepping
    /\ \E sample \in FlowSamples :
        LET m == molecules[keys[idx]]
            p == Predict(integration_method, m, base_delta_time, sample, TRUE)
        IN  molecules' = UpdateMolecule(molecules, p.molecule)
    /\ log' = Append(log, Event("predict", keys[idx]))
    /\ pc' = "after"
    /\ UNCHANGED << configVars, libraryVars,
                    sim_time, elapsed_base_time_steps,
                    total_counter, molecules_to_add, molecules_to_destroy,
                    keys, idx, localVars, warned, notify_rounds, base_steps,
                    sim_time_before, sim_time_initial >>

\* entry of _advance_molecule_to_next_base_step
AdvanceEnter ==
    /\ pc = "move"
    /\ use_adaptive_time_stepping
    /\ sim_time_next' = sim_time + base_delta_time
    /\ sub_sim_time' = sim_time
    /\ num_steps' = 0
    /\ pc' = "advance"
    /\ UNCHANGED << configVars, libraryVars,
                    sim_time, elapsed_base_time_steps,
                    managerVars, keys, idx, error, num_corrections,
                    delta_time, new_pos_global, exponent, warned, log,
                    notify_rounds, base_steps, sim_time_before, sim_time_initial >>

\* loop head of _advance_molecule_to_next_base_step; entering the body
\* enters _update_molecule
AdvanceLoop ==
    /\ pc = "advance"
    /\ IF MustAdvance(sub_sim_time, sim_time_next)
       THEN /\ num_steps' = CountUpTo(num_steps, MaxSubSteps)
            /\ error' = Inf
            /\ new_pos_global' = molecules[keys[idx]].position
            /\ delta_time' = Inf
            /\ num_corrections' = -1
            /\ exponent' = 0
            /\ warned' = FALSE
            /\ pc' = "attempt"
            /\ log' = log
       ELSE /\ log' = Append(log, Event("advance", keys[idx]))
            /\ pc' = "after"
            /\ UNCHANGED << error, new_pos_global, delta_time,
                            num_corrections, exponent, warned, num_steps >>
    /\ UNCHANGED << configVars, libraryVars,
                    sim_time, elapsed_base_time_steps,
                    managerVars, keys, idx, sub_sim_time, sim_time_next,
                    notify_rounds, base_steps, sim_time_before, sim_time_initial >>

\* one pass of the while loop of _update_molecule
Attempt ==
    /\ pc = "attempt"
    /\ MustAttempt(error, num_corrections)
    /\ \E sample \in FlowSamples :
        LET m == molecules[keys[idx]]
            dt == CandidateStep(m.delta_time_opt, sub_sim_time, sim_time)
            p == Predict(integration_method, m, dt, sample, FALSE)
        IN  /\ num_corrections' = num_corrections + 1
            /\ delta_time' = dt
            /\ new_pos_global' = p.new_pos_global
            /\ error' = p.error
            /\ exponent' = ExponentFor(p.error,
                                adaptive_time_max_error_threshold)
            /\ molecules' = [molecules EXCEPT ![keys[idx]] =
                    [p.molecule EXCEPT !.delta_time_opt =
                        DeltaTimeOpt(dt, adaptive_time_max_error_threshold,
                                     p.error)]]
    /\ UNCHANGED << configVars, libraryVars,
                    sim_time, elapsed_base_time_steps, pc,
                    total_counter, molecules_to_add, molecules_to_destroy,
                    keys, idx, sub_sim_time, sim_time_next, num_steps, warned,
                    log,
                    notify_rounds, base_steps, sim_time_before, sim_time_initial >>

\* the end of _update_molecule and of the loop body of
\* _advance_molecule_to_next_base_step
Commit ==
    /\ pc = "attempt"
    /\ ~MustAttempt(error, num_corrections)
    /\ warned' = LimitExceeded(num_corrections)
    /\ molecules' = [molecules EXCEPT ![keys[idx]].position = new_pos_global]
    /\ sub_sim_time' = Plus(sub_sim_time, delta_time)
    /\ pc' = "advance"
    /\ UNCHANGED << configVars, libraryVars,
                    sim_time, elapsed_base_time_steps,
                    total_counter, molecules_to_add, molecules_to_destroy,
                    keys, idx, sim_time_next, error, num_corrections,
                    delta_time, new_pos_global, exponent, num_steps, log,
                    notify_rounds,
                    base_steps, sim_time_before, sim_time_initial >>

\* SensorManager.process_molecule_moving_after: every destructing sensor
\* whose zone holds the molecule calls destroy_molecule
RECURSIVE DestroyTimes(_, _, _)
DestroyTimes(mgr, id, n) ==
    IF n = 0 THEN mgr ELSE DestroyTimes(DestroyMolecule(mgr, id), id, n - 1)

AfterMove ==
    /\ pc = "after"
    /\ \E n \in 0..MaxDestructingSensors :
        SetManager(DestroyTimes(Manager, keys[idx], n))
    /\ log' = Append(log, Event("after", keys[idx]))
    /\ idx' = idx + 1
    /\ pc' = "traverse"
    /\ IdleLocals
    /\ warned' = FALSE
    /\ UNCHANGED << configVars, libraryVars,
                    sim_time, elapsed_base_time_steps, keys,
                    notify_rounds, base_steps, sim_time_before, sim_time_initial >>

\* apply_changes inside the loop over the molecules, before the last one
ApplyChangesEarly ==
    /\ pc = "traverse"
    /\ idx >= Len(keys)
    /\ LET mgr == ApplyChangesTo(Manager)
       IN  /\ SetManager(mgr)
           /\ pc' = IF mgr.raised THEN "aborted" ELSE "clock"
    /\ log' = Append(log, Event("apply", -1))
    /\ UNCHANGED << configVars, libraryVars,
                    sim_time, elapsed_base_time_steps, keys, idx,
                    localVars, warned, notify_rounds, base_steps,
                    sim_time_before, sim_time_initial >>

\* MoleculeManager.apply_changes at the end of the traversal; a KeyError
\* ends the run
ApplyChanges ==
    /\ pc = "traverse"
    /\ idx > Len(keys)
    /\ LET mgr == ApplyChangesTo(Manager)
       IN  /\ SetManager(mgr)
           /\ pc' = IF mgr.raised THEN "aborted" ELSE "clock"
    /\ log' = Append(log, Event("apply", -1))
    /\ UNCHANGED << configVars, libraryVars,
                    sim_time, elapsed_base_time_steps, keys, idx,
                    localVars, warned, notify_rounds, base_steps,
                    sim_time_before, sim_time_initial >>

\* the clock update of both loops
AdvanceClock ==
    /\ pc = "clock"
    /\ elapsed_base_time_steps' = elapsed_base_time_steps + 1
    /\ sim_time' = NextSimTime(elapsed_base_time_steps + 1)
    /\ log' = Append(log, Event("clock", -1))
    /\ pc' = "notify"
    /\ UNCHANGED << configVars, libraryVars,
                    managerVars, keys, idx, localVars, warned,
                    notify_rounds, base_steps, sim_time_before, sim_time_initial >>

Next ==
    \/ Start
    \/ NotifyComponents
    \/ LoopCheck
    \/ BeforeMove
    \/ LegacyPredict
    \/ AdvanceEnter
    \/ AdvanceLoop
    \/ Attempt
    \/ Commit
    \/ AfterMove
    \/ ApplyChanges
    \/ AdvanceClock

Spec == Init /\ [][Next]_vars

\* The kernel started with every integration method, for two base steps.
InitMethods ==
    /\ use_adaptive_time_stepping \in BOOLEAN
    /\ adaptive_time_max_error_threshold = base_delta_time
    /\ adaptive_time_corrections_limit \in CorrectionsLimits
    /\ sim_time_limit = 2 * base_delta_time
    /\ update_molecule_collection_immediately \in BOOLEAN
    /\ integration_method \in IntegrationMethods
    /\ sim_time = 0
    /\ pc = "start"
    /\ KernelCreated
    /\ NoComponents
    /\ call = NoCall
    /\ result = Pending

SpecMethods == InitMethods /\ [][Next]_vars

\* ------------------------------------------------- the molecule manager
\* The molecule manager on its own, called in any order.  The position of
\* a new molecule is the number of add_molecule calls made before it.
KernelDefaults ==
    /\ use_adaptive_time_stepping = FALSE
    /\ adaptive_time_max_error_threshold = Inf
    /\ adaptive_time_corrections_limit = 0
    /\ sim_time_limit = 0
    /\ integration_method = "RUNGE_KUTTA_4"
    /\ sim_time = 0
    /\ KernelCreated
    /\ NoComponents

InitManager ==
    /\ KernelDefaults
    /\ update_molecule_collection_immediately \in BOOLEAN
    /\ pc = "manager"
    /\ call = NoCall
    /\ result = Pending

kernelVars == << use_adaptive_time_stepping,
                 adaptive_time_max_error_threshold,
                 adaptive_time_corrections_limit, sim_time_limit,
                 integration_method, sim_time, elapsed_base_time_steps,
                 keys, idx, localVars, warned, log, notify_rounds,
                 base_steps, sim_time_before, sim_time_initial >>

AddCalls == total_counter + Len(molecules_to_add)

MgrAddMolecule ==
    /\ pc = "manager"
    /\ AddCalls < MaxAddCalls
    /\ SetManager(AddMolecule(Manager, NewMolecule(AddCalls, 0, 0)))
    /\ UNCHANGED << kernelVars, libraryVars, pc,
                    update_molecule_collection_immediately >>

MgrDestroyMolecule ==
    /\ pc = "manager"
    /\ Len(molecules_to_destroy) < MaxDestructingSensors
    /\ \E id \in DOMAIN molecules :
        SetManager(DestroyMolecule(Manager, id))
    /\ UNCHANGED << kernelVars, libraryVars, pc,
                    update_molecule_collection_immediately >>

MgrUpdateMolecule ==
    /\ pc = "manager"
    /\ \E id \in DOMAIN molecules : \E d \in {1, Inf} :
        molecules' = UpdateMolecule(molecules,
                        [molecules[id] EXCEPT !.delta_time_opt = d])
    /\ UNCHANGED << kernelVars, libraryVars, pc, total_counter,
                    molecules_to_add, molecules_to_destroy,
                    update_molecule_collection_immediately >>

MgrApplyChanges ==
    /\ pc = "manager"
    /\ LET mgr == ApplyChangesTo(Manager)
       IN  /\ SetManager(mgr)
           /\ pc' = IF mgr.raised THEN "aborted" ELSE "manager"
    /\ UNCHANGED << kernelVars, libraryVars,
                    update_molecule_collection_immediately >>

NextManager ==
    \/ MgrAddMolecule
    \/ MgrDestroyMolecule
    \/ MgrUpdateMolecule
    \/ MgrApplyChanges

SpecManager == InitManager /\ [][NextManager]_vars

\* ------------------------------------------------------------------ claims
cur == keys[idx]

Moving == pc \in {"move", "advance", "attempt", "after"}

\* a sub-step of the adaptive loop has just ended
SubStepEnded == use_adaptive_time_stepping /\ pc = "advance" /\ num_steps > 0

\* at least one pass of the while loop of _update_molecule was made
AttemptMade ==
    use_adaptive_time_stepping /\ pc = "attempt" /\ num_corrections >= 0

\* C1: in adaptive mode, when a molecule's advance to the next base step
\* returns, the step sizes added to its local sub-time sum to
\* base_delta_time, for every error threshold and corrections limit.
C1_SubStepsSumToBase ==
    (use_adaptive_time_stepping /\ pc = "after")
        => IsClose(sub_sim_time, sim_time + base_delta_time)

\* C2: every committed sub-step size is at most base_delta_time and a
\* molecule's local sub-time never passes sim_time + base_delta_time.
C2_NoOvershoot ==
    (use_adaptive_time_stepping /\ pc \in {"advance", "after"})
        => /\ sub_sim_time <= sim_time + base_delta_time
           /\ delta_time <= base_delta_time

\* C3: within one adaptive sub-step the number of corrections never
\* exceeds adaptive_time_corrections_limit.
C3_CorrectionsWithinLimit ==
    (use_adaptive_time_stepping /\ pc \in {"attempt", "advance", "after"})
        => num_corrections <= adaptive_time_corrections_limit

\* C4 as claimed: when a sub-step ends, the position of the last attempt is
\* committed, the sub-time advances by the last step size, and the warning
\* is emitted exactly when the error is still above the threshold.
C4_WarningIffErrorAbove ==
    [][(use_adaptive_time_stepping /\ pc = "attempt" /\ pc' = "advance")
        => /\ molecules'[cur].position = new_pos_global
           /\ sub_sim_time' = Plus(sub_sim_time, delta_time)
           /\ warned' <=> (error > adaptive_time_max_error_threshold)]_vars

\* C4 amended: when a sub-step ends, the position of the last attempt is
\* committed and the sub-time advances by the last step size; the warning
\* is emitted exactly when the number of corrections exceeds the limit,
\* which is always the case when the error is still above the threshold.
C4_WarningIffLimitExceeded ==
    [][(use_adaptive_time_stepping /\ pc = "attempt" /\ pc' = "advance")
        => /\ molecules'[cur].position = new_pos_global
           /\ sub_sim_time' = Plus(sub_sim_time, delta_time)
           /\ warned' <=> (num_corrections > adaptive_time_corrections_limit)
           /\ (error > adaptive_time_max_error_threshold) => warned']_vars

C4_Witness ==
    /\ SubStepEnded
    /\ warned
    /\ error > adaptive_time_max_error_threshold
    /\ num_corrections = adaptive_time_corrections_limit + 1
    /\ molecules[cur].position = new_pos_global
    /\ delta_time > 0

\* the attempt is rejected: its error is over the threshold and a retry
\* follows
Rejected == MustAttempt(error, num_corrections)

\* C5 as claimed: after every attempt delta_time_opt is
\* safety_factor * dt * (threshold / error) ^ (1 / n) with n = order + 1
\* exactly when the attempt is rejected and n = order exactly when it is
\* accepted (the exponent is immaterial when error = threshold), and
\* infinity when the error is zero.
C5_ExponentByRejection ==
    AttemptMade =>
        LET n == IF Rejected THEN rkf_order + 1 ELSE rkf_order
        IN  /\ (error # adaptive_time_max_error_threshold) => exponent = n
            /\ molecules[cur].delta_time_opt =
                IF error = 0 THEN Inf
                ELSE OptimalStepSize(delta_time,
                        adaptive_time_max_error_threshold, error, n)

\* C5 amended: after every attempt delta_time_opt is
\* safety_factor * dt * (threshold / error) ^ (1 / n) with n = order + 1
\* whenever the error is at or above the threshold, whether or not a retry
\* follows, and n = order when it is below; infinity when the error is zero.
C5_ExponentByError ==
    AttemptMade =>
        /\ exponent = IF error >= adaptive_time_max_error_threshold
                      THEN rkf_order + 1 ELSE rkf_order
        /\ molecules[cur].delta_time_opt =
            IF error = 0 THEN Inf
            ELSE OptimalStepSize(delta_time,
                    adaptive_time_max_error_threshold, error, exponent)

C5_Witness ==
    /\ AttemptMade
    /\ error > adaptive_time_max_error_threshold
    /\ ~Rejected
    /\ exponent = rkf_order + 1
    /\ molecules[cur].delta_time_opt < delta_time

\* the events of the first n molecules of the traversal
MoveEvent == IF use_adaptive_time_stepping THEN "advance" ELSE "predict"

RECURSIVE Visited(_)
Visited(n) ==
    IF n = 0 THEN << >>
    ELSE Visited(n - 1) \o << Event("before", keys[n]),
                              Event(MoveEvent, keys[n]),
                              Event("after", keys[n]) >>

\* C6: in both loops the events of a base step are, for each live molecule
\* in turn, the before-move notification, its advance (in legacy mode one
\* call of the predictor), the after-move notification; then, after all
\* live molecules, apply_changes once, the clock, the notification round.
C6_StrictOrder ==
    base_steps > 0 =>
        /\ (pc = "traverse" \/ Moving) => keys = SortedSeq(DOMAIN molecules)
        /\ pc = "traverse" => log = Visited(idx - 1)
        /\ pc \in {"move", "advance", "attempt"}
            => log = Visited(idx - 1) \o << Event("before", cur) >>
        /\ pc = "after"
            => log = Visited(idx - 1) \o << Event("before", cur),
                                            Event(MoveEvent, cur) >>
        /\ pc \in {"clock", "aborted"}
            => log = Visited(Len(keys)) \o << Event("apply", -1) >>
        /\ pc = "notify"
            => log = Visited(Len(keys)) \o << Event("apply", -1),
                                              Event("clock", -1) >>
        /\ pc \in {"loop", "done"}
            => log = Visited(Len(keys)) \o << Event("apply", -1),
                                              Event("clock", -1),
                                              Event("notify", -1) >>

C6_Witness ==
    /\ ~use_adaptive_time_stepping
    /\ pc = "loop"
    /\ Len(keys) = 2
    /\ Len(log) = 9

Count(ev, id) == Cardinality({i \in DOMAIN log : log[i] = Event(ev, id)})

\* C7: in adaptive mode the before-move and the after-move hook are each
\* invoked exactly once per live molecule per base step, however many
\* sub-steps and corrections it takes, and the after-move hook only when
\* the molecule's local sub-time has reached the base step boundary.
C7_HooksOncePerBaseStep ==
    (use_adaptive_time_stepping /\ base_steps > 0) =>
        /\ \A i \in DOMAIN keys :
            /\ Count("before", keys[i]) =
                IF i < idx \/ (i = idx /\ Moving) THEN 1 ELSE 0
            /\ Count("after", keys[i]) = IF i < idx THEN 1 ELSE 0
        /\ pc \in {"clock", "notify", "loop", "done"} => idx = Len(keys) + 1
        /\ pc = "after" => sub_sim_time >= sim_time + base_delta_time

C7_Witness ==
    /\ use_adaptive_time_stepping
    /\ pc = "after"
    /\ idx = 2
    /\ num_steps >= 2
    /\ num_corrections >= 1
    /\ Count("before", keys[1]) = 1
    /\ Count("after", keys[1]) = 1
    /\ Count("before", keys[2]) = 1
    /\ Count("after", keys[2]) = 0
    /\ sub_sim_time = sim_time + base_delta_time

\* C8: components are notified once at the initial time before any molecule
\* is moved and once after each base step; base steps run exactly while
\* sim_time < sim_time_limit, so N base steps give N + 1 rounds and the run
\* ends with sim_time >= sim_time_limit (N = 0 when the limit is not above
\* the initial time).
C8_NotificationRounds ==
    /\ notify_rounds = 0 => (base_steps = 0 /\ pc \in {"start", "notify", "aborted"})
    /\ pc \in {"loop", "done"} => notify_rounds = base_steps + 1
    /\ (pc = "traverse" \/ Moving \/ pc = "clock")
        => (notify_rounds = base_steps /\ sim_time < sim_time_limit)
    /\ (pc = "notify" /\ base_steps > 0) => notify_rounds = base_steps
    /\ pc = "done" => sim_time >= sim_time_limit
    /\ (pc = "done" /\ sim_time_limit <= sim_time_initial) => base_steps = 0

C8_Witness ==
    /\ pc = "done"
    /\ base_steps = MaxBaseSteps
    /\ notify_rounds = MaxBaseSteps + 1

\* C9: each base step advances the clock by exactly base_delta_time, for
\* any configured initial sim_time.
C9_ClockAdvancesByBase ==
    (pc = "notify" /\ base_steps > 0)
        => sim_time = sim_time_before + base_delta_time

\* C10: with update_molecule_collection_immediately = False the live
\* collection does not change while a base step traverses it, and
\* apply_changes leaves both pending lists empty.
C10_BufferedChanges ==
    ~update_molecule_collection_immediately =>
        /\ (pc = "traverse" \/ Moving) => keys = SortedSeq(DOMAIN molecules)
        /\ (base_steps > 0 /\ pc \in {"clock", "aborted"})
            => (molecules_to_add = << >> /\ molecules_to_destroy = << >>)

\* C11: after any sequence of add_molecule, destroy_molecule,
\* update_molecule and apply_changes every live molecule is stored under
\* its id, no molecule is stored twice, ids follow the order of the
\* add_molecule calls, and an id comes from a counter that only grows, so
\* that a key that appears is new and never one used before.
C11_IdsFromCounter ==
    [][/\ \A k \in DOMAIN molecules' :
            /\ molecules'[k].id = k
            /\ 0 <= k /\ k < total_counter'
       /\ \A j, k \in DOMAIN molecules' :
            /\ molecules'[j].position = molecules'[k].position => j = k
            /\ molecules'[j].position < molecules'[k].position => j < k
       /\ total_counter' >= total_counter
       /\ \A k \in DOMAIN molecules' \ DOMAIN molecules :
            k >= total_counter]_vars

C11_Witness ==
    /\ pc = "manager"
    /\ ~update_molecule_collection_immediately
    /\ total_counter = 3
    /\ DOMAIN molecules = {0, 2}
    /\ molecules[2].delta_time_opt = 1

\* ---------------------------------------------------------------------
\* Transformation (transformation.py).  Vectors are triples, matrices are
\* 4x4 tuples of rows.  Rotations are whole quarter turns, so that sine
\* and cosine are integers; the inverse matrix is kept exactly, as an
\* integer matrix over a common denominator (adjugate over determinant).

Cos(q) == << 1, 0, -1, 0 >>[(q % 4) + 1]

Sin(q) == << 0, 1, 0, -1 >>[(q % 4) + 1]

\* np.array of a sequence: the same sequence with its elements worked out
Array(seq) == SubSeq(seq, 1, Len(seq))

RECURSIVE SumOver(_, _)
SumOver(f, n) == IF n = 0 THEN 0 ELSE f[n] + SumOver(f, n - 1)

MatVec(m, v) ==
    Array([i \in 1..Len(m) |->
        SumOver([j \in 1..Len(v) |-> m[i][j] * v[j]], Len(v))])

MatMul(a, b) ==
    Array([i \in 1..Len(a) |-> Array([j \in 1..Len(b[1]) |->
        SumOver([k \in 1..Len(b) |-> a[i][k] * b[k][j]], Len(b))])])

Minor(m, r, c) ==
    Array([i \in 1..(Len(m) - 1) |-> Array([j \in 1..(Len(m) - 1) |->
        m[IF i < r THEN i ELSE i + 1][IF j < c THEN j ELSE j + 1]])])

RECURSIVE Det(_)
Det(m) ==
    IF Len(m) = 1 THEN m[1][1]
    ELSE SumOver([j \in 1..Len(m) |->
            (IF j % 2 = 1 THEN 1 ELSE -1) * m[1][j] * Det(Minor(m, 1, j))],
         Len(m))

Adjugate(m) ==
    Array([i \in 1..Len(m) |-> Array([j \in 1..Len(m) |->
        (IF (i + j) % 2 = 0 THEN 1 ELSE -1) * Det(Minor(m, j, i))])])

\* np.linalg.inv: raises LinAlgError for a singular matrix.
Inv(m) == [num |-> Adjugate(m), den |-> Det(m)]

generate_translation_matrix(t) ==
    << << 1, 0, 0, t[1] >>,
       << 0, 1, 0, t[2] >>,
       << 0, 0, 1, t[3] >>,
       << 0, 0, 0, 1 >> >>

generate_scaling_matrix(s) ==
    << << s[1], 0, 0, 0 >>,
       << 0, s[2], 0, 0 >>,
       << 0, 0, s[3], 0 >>,
       << 0, 0, 0, 1 >> >>

generate_rotation_matrix(r) ==
    LET rx == << << 1, 0, 0, 0 >>,
                 << 0, Cos(r[1]), -Sin(r[1]), 0 >>,
                 << 0, Sin(r[1]), Cos(r[1]), 0 >>,
                 << 0, 0, 0, 1 >> >>
        ry == << << Cos(r[2]), 0, Sin(r[2]), 0 >>,
                 << 0, 1, 0, 0 >>,
                 << -Sin(r[2]), 0, Cos(r[2]), 0 >>,
                 << 0, 0, 0, 1 >> >>
        rz == << << Cos(r[3]), -Sin(r[3]), 0, 0 >>,
                 << Sin(r[3]), Cos(r[3]), 0, 0 >>,
                 << 0, 0, 1, 0 >>,
                 << 0, 0, 0, 1 >> >>
    IN  MatMul(MatMul(rz, ry), rx)

\* Transformation.__init__ with _update_matrix: scaling first, then
\* rotation, then translation.  singular stands for the LinAlgError that
\* np.linalg.inv raises in the constructor.
Transformation(translation, rotation, scaling) ==
    LET t == generate_translation_matrix(translation)
        r == generate_rotation_matrix(rotation)
        s == generate_scaling_matrix(scaling)
        matrix == MatMul(MatMul(t, r), s)
        direction_matrix == MatMul(r, s)
    IN  [translation |-> translation, rotation |-> rotation,
         scaling |-> scaling,
         matrix |-> matrix,
         inverse_matrix |-> Inv(matrix),
         direction_matrix |-> direction_matrix,
         inverse_direction_matrix |-> Inv(direction_matrix),
         singular |-> Det(matrix) = 0 \/ Det(direction_matrix) = 0]

apply_to_point(t, point) == SubSeq(MatVec(t.matrix, point \o << 1 >>), 1, 3)

apply_to_direction(t, vec) ==
    SubSeq(MatVec(t.direction_matrix, vec \o << 1 >>), 1, 3)

\* The result is a vector over a denominator: the point is num / den.
ApplyInverseDirectionOnly(t, point) ==
    [num |-> SubSeq(MatVec(t.inverse_direction_matrix.num, point \o << 1 >>), 1, 3),
     den |-> t.inverse_direction_matrix.den]

apply_inverse_to_point(t, point) ==
    [num |-> SubSeq(MatVec(t.inverse_matrix.num, point \o << 1 >>), 1, 3),
     den |-> t.inverse_matrix.den]

\* ------------------------------------------------ library calls in general
\* A library function is called while the kernel is created and idle.
systemVars == << kernelVars, update_molecule_collection_immediately, pc,
                 molecules, total_counter, molecules_to_add,
                 molecules_to_destroy, componentVars,
                 elapsed_sub_time_steps >>

LibraryIdle ==
    /\ KernelDefaults
    /\ update_molecule_collection_immediately = FALSE
    /\ pc = "library"
    /\ result = Pending

Returned(value) == [status |-> "returned", value |-> value]

Raised(exception) == [status |-> "raised", exception |-> exception]

\* --------------------------------------- Transformation: there and back
Translations == { << 0, 0, 0 >>, << 1, 2, 3 >>, << -2, 0, 1 >> }

\* rotation vectors, in quarter turns about x, y and z
Rotations == { << 0, 0, 0 >>, << 0, 0, 1 >>, << 2, 0, 1 >>, << 1, 3, 2 >> }

Scalings == { << 1, 1, 1 >>, << 2, 2, 2 >>, << 1, 2, 3 >>, << -1, 2, 1 >>,
              << 0, 1, 1 >> }

Points == { << 0, 0, 0 >>, << 1, 0, 0 >>, << 4, -3, 2 >> }

InitTransformation ==
    /\ LibraryIdle
    /\ call \in [fn : {"apply_to_point"}, translation : Translations,
                 rotation : Rotations, scaling : Scalings, point : Points]

CallTransformation ==
    Transformation(call.translation, call.rotation, call.scaling)

\* t = Transformation(...); t.apply_to_point(p)
ApplyToPoint ==
    /\ pc = "library"
    /\ call.fn = "apply_to_point"
    /\ result = Pending
    /\ result' = IF CallTransformation.singular THEN Raised("LinAlgError")
                 ELSE Returned(apply_to_point(CallTransformation, call.point))
    /\ UNCHANGED << systemVars, call >>

\* t.apply_inverse_to_point(...) of the point that apply_to_point returned
ApplyInverseToPoint ==
    /\ pc = "library"
    /\ call.fn = "apply_to_point"
    /\ result.status = "returned"
    /\ call' = [call EXCEPT !.fn = "apply_inverse_to_point"]
    /\ result' = Returned(apply_inverse_to_point(CallTransformation,
                                                 result.value))
    /\ UNCHANGED systemVars

NextTransformation ==
    \/ ApplyToPoint
    \/ ApplyInverseToPoint

SpecTransformation == InitTransformation /\ [][NextTransformation]_vars

\* C19: for a Transformation built from a translation, a rotation and a
\* scale, apply_inverse_to_point(apply_to_point(p)) is p, for every point.
C19_RoundTrip ==
    (pc = "library" /\ call.fn = "apply_inverse_to_point")
        => /\ result.status = "returned"
           /\ result.value.den # 0
           /\ \A i \in 1..3 :
                result.value.num[i] = result.value.den * call.point[i]

C19_Witness ==
    /\ pc = "library"
    /\ call.fn = "apply_inverse_to_point"
    /\ call.translation = << 1, 2, 3 >>
    /\ call.rotation = << 1, 3, 2 >>
    /\ call.scaling = << -1, 2, 1 >>
    /\ call.point = << 4, -3, 2 >>
    /\ result.value.den = -2

\* ---------------------------------------------- sampling the vector field
\* VectorFieldManager.get_flow_by_position over a mesh of 3 x 3 square
\* cells of side 2 in local coordinates, with walls at x = 0, x = 6, y = 0
\* and y = 6.  Cell 5 is the only cell that is not at the boundary.  A
\* flow is a vector over a denominator, [num, den], so that the ratios of
\* the boundary rule are exact.
Interpolations ==
    { "NEAREST_NEIGHBOR", "SHEPARD", "MODIFIED_SHEPARD",
      "MODIFIED_SHEPARD_LINEAR", "MODIFIED_SHEPARD_SQUARED",
      "MODIFIED_SHEPARD_CUBED", "MODIFIED_SHEPARD_FOURTH", "NONE" }

ModifiedShepards ==
    { "MODIFIED_SHEPARD", "MODIFIED_SHEPARD_LINEAR",
      "MODIFIED_SHEPARD_SQUARED", "MODIFIED_SHEPARD_CUBED",
      "MODIFIED_SHEPARD_FOURTH" }

\* a component that is not a number
NaN == 999999

HasNaN(vec) == \E i \in 1..Len(vec) : vec[i] = NaN

Dot(a, b) == SumOver([i \in 1..Len(a) |-> a[i] * b[i]], Len(a))

Minus(a, b) == Array([i \in 1..Len(a) |-> a[i] - b[i]])

Cells == 1..9

Column(cell) == ((cell - 1) % 3) + 1

Row(cell) == ((cell - 1) \div 3) + 1

CellCentre(cell) == << 2 * Column(cell) - 1, 2 * Row(cell) - 1, 0 >>

\* VectorFieldParser.point_distance_to_plane, for a point with integer
\* coordinates
PlaneDistance(position, face_position, normalized_normal) ==
    Dot(normalized_normal, Minus(position, face_position))

\* Face as the parser builds it: distance_to_centre is the signed distance
\* of the owner's centre, for whichever way the normal points.
Face(position, normalized_normal, cell) ==
    [position |-> position, normalized_normal |-> normalized_normal,
     distance_to_centre |->
        PlaneDistance(CellCentre(cell), position, normalized_normal)]

BoundaryFaces(cell) ==
    (IF Column(cell) = 1
     THEN << Face(<< 0, 2 * Row(cell) - 2, 0 >>, << 1, 0, 0 >>, cell) >>
     ELSE << >>)
    \o (IF Column(cell) = 3
        THEN << Face(<< 6, 2 * Row(cell) - 2, 0 >>, << 1, 0, 0 >>, cell) >>
        ELSE << >>)
    \o (IF Row(cell) = 1
        THEN << Face(<< 2 * Column(cell) - 2, 0, 0 >>, << 0, 1, 0 >>, cell) >>
        ELSE << >>)
    \o (IF Row(cell) = 3
        THEN << Face(<< 2 * Column(cell) - 2, 6, 0 >>, << 0, -1, 0 >>, cell) >>
        ELSE << >>)

\* The flow read from the U file: cell 7 is stagnant, and in the field
\* of a diverged solver run cell 3 holds a nan.
Fields == { "cavity", "diverged" }

CellFlow(field, cell) ==
    IF field = "diverged" /\ cell = 3 THEN << NaN, 0, 0 >>
    ELSE IF cell = 7 THEN << 0, 0, 0 >>
    ELSE << 1 + (cell % 2), (cell % 3) - 1, 0 >>

VectorField(field) ==
    [cell_centres |-> Array([cell \in Cells |-> CellCentre(cell)]),
     flow |-> Array([cell \in Cells |-> CellFlow(field, cell)]),
     at_boundary |-> Array([cell \in Cells |-> BoundaryFaces(cell) # << >>]),
     boundary_faces |-> Array([cell \in Cells |-> BoundaryFaces(cell)])]

\* VectorFieldManager.__init__: the kd-tree holds the centres in global
\* coordinates.
VectorFieldManager(vector_field, transformation) ==
    [vector_field_local |-> vector_field,
     kd_tree_global |-> Array([cell \in DOMAIN vector_field.cell_centres |->
        apply_to_point(transformation, vector_field.cell_centres[cell])]),
     transformation |-> transformation]

SquaredDistance(a, b) == Dot(Minus(a, b), Minus(a, b))

\* kd_tree_global.query(position_global): the nearest centre
Query(vfm, position_global) ==
    CHOOSE cell \in DOMAIN vfm.kd_tree_global :
        \A other \in DOMAIN vfm.kd_tree_global :
            SquaredDistance(vfm.kd_tree_global[cell], position_global)
                <= SquaredDistance(vfm.kd_tree_global[other], position_global)

\* kd_tree_global.query(position_global, k=9): the nine nearest centres
QueryNine(vfm, position_global) ==
    { cell \in DOMAIN vfm.kd_tree_global :
        Cardinality({ other \in DOMAIN vfm.kd_tree_global :
            SquaredDistance(vfm.kd_tree_global[other], position_global)
                < SquaredDistance(vfm.kd_tree_global[cell], position_global) })
            < 9 }

\* np.isclose(distance, 0, atol=1e-10): on this grid a distance is zero
\* or at least one
AtCentre(vfm, cell, position_global) ==
    SquaredDistance(vfm.kd_tree_global[cell], position_global) = 0

\* A ratio num / den with den > 0, compared by cross-multiplication;
\* np.inf is 1 / 0.
Ratio(num, den) ==
    IF den < 0 THEN [num |-> -num, den |-> -den] ELSE [num |-> num, den |-> den]

RatioLess(a, b) == a.num * b.den < b.num * a.den

\* point_distance_to_plane(position_local, face_local)
\*     / face_local.distance_to_centre
FaceRatio(position_local, face_local) ==
    Ratio(Dot(face_local.normalized_normal, position_local.num)
            - position_local.den
                * Dot(face_local.normalized_normal, face_local.position),
          position_local.den * face_local.distance_to_centre)

RECURSIVE LastFaceRatio(_, _, _)
LastFaceRatio(position_local, faces_local, n) ==
    IF n = 0 THEN [num |-> 1, den |-> 0]
    ELSE FaceRatio(position_local, faces_local[n])

\* the loop over faces_local, after n faces
RECURSIVE MinimumRatio(_, _, _)
MinimumRatio(position_local, faces_local, n) ==
    IF n = 0 THEN [num |-> 1, den |-> 0]
    ELSE LET minimum_ratio == MinimumRatio(position_local, faces_local, n - 1)
             ratio == FaceRatio(position_local, faces_local[n])
         IN  IF RatioLess(ratio, minimum_ratio) THEN ratio ELSE minimum_ratio

Exact(vec) == [num |-> vec, den |-> 1]

\* flow_local * minimum_ratio
Scaled(vec, ratio) ==
    [num |-> Array([i \in 1..Len(vec) |->
                IF vec[i] = NaN THEN NaN ELSE vec[i] * ratio.num]),
     den |-> ratio.den]

\* The weighted mean of the flows of the given cells.  Its value is not
\* followed (the weights are powers of inverse distances); it is not a
\* number when one of the flows is not.
Interpolated(vfm, cells) ==
    [interpolated_over |-> cells,
     nan |-> \E cell \in cells : HasNaN(vfm.vector_field_local.flow[cell])]

\* a product with a matrix has nan in every component when the vector
\* has one
make_flow_global(vfm, flow_local) ==
    [num |-> IF HasNaN(flow_local.num) THEN << NaN, NaN, NaN >>
             ELSE apply_to_direction(vfm.transformation, flow_local.num),
     den |-> flow_local.den]

get_flow_by_position(vfm, position_global, interpolation_type) ==
    LET position_local ==
            apply_inverse_to_point(vfm.transformation, position_global)
        closest == Query(vfm, position_global)
        flow == vfm.vector_field_local.flow
        minimum_ratio ==
            MinimumRatio(position_local,
                         vfm.vector_field_local.boundary_faces[closest],
                         Len(vfm.vector_field_local.boundary_faces[closest]))
    IN  IF interpolation_type = "NEAREST_NEIGHBOR"
        THEN Returned(make_flow_global(vfm, Exact(flow[closest])))
        ELSE IF interpolation_type = "SHEPARD"
        THEN IF AtCentre(vfm, closest, position_global)
             THEN Returned(Exact(flow[closest]))
             ELSE Returned(Interpolated(vfm, DOMAIN flow))
        ELSE IF interpolation_type \in ModifiedShepards
        THEN IF AtCentre(vfm, closest, position_global)
             THEN Returned(make_flow_global(vfm, Exact(flow[closest])))
             ELSE IF vfm.vector_field_local.at_boundary[closest]
             THEN IF minimum_ratio.num < 0
                  THEN Returned(make_flow_global(vfm, Exact(<< 0, 0, 0 >>)))
                  ELSE Returned(make_flow_global(vfm,
                                    Scaled(flow[closest], minimum_ratio)))
             ELSE Returned(Interpolated(vfm, QueryNine(vfm, position_global)))
        ELSE Raised("NotImplementedError")

\* np.isnan(flow) of a returned flow
FlowIsNaN(flow) ==
    IF "nan" \in DOMAIN flow THEN flow.nan ELSE HasNaN(flow.num)

\* Object.get_flow
ObjectGetFlow(vfm, is_active, position_global, interpolation_type) ==
    IF ~is_active THEN Returned(Exact(<< 0, 0, 0 >>))
    ELSE get_flow_by_position(vfm, position_global, interpolation_type)

\* SceneManager.get_flow_by_position
SceneGetFlowByPosition(vfm, is_active, position_global, interpolation_type) ==
    LET flow == ObjectGetFlow(vfm, is_active, position_global,
                              interpolation_type)
    IN  IF flow.status = "returned" /\ FlowIsNaN(flow.value)
        THEN Raised("AssertionError")
        ELSE flow

\* SensorFlowRate.process_new_time_step in the LOGGING stage, for one
\* sample point: the flow is what is written into the row.
SensorProcessNewTimeStep(vfm, position_global, interpolation_type) ==
    get_flow_by_position(vfm, position_global, interpolation_type)

\* ---- the calls
MaxCoordinate == 7

Coordinates == (-1)..MaxCoordinate

FlowTransformations ==
    { [translation |-> << 0, 0, 0 >>, rotation |-> << 0, 0, 0 >>,
       scaling |-> << 1, 1, 1 >>],
      [translation |-> << 0, 0, 0 >>, rotation |-> << 0, 0, 0 >>,
       scaling |-> << 2, 2, 2 >>],
      [translation |-> << 6, 0, 0 >>, rotation |-> << 0, 0, 1 >>,
       scaling |-> << 1, 1, 1 >>],
      [translation |-> << 1, 0, 0 >>, rotation |-> << 0, 0, 0 >>,
       scaling |-> << 1, 1, 1 >>],
      [translation |-> << 7, -1, 0 >>, rotation |-> << 0, 0, 1 >>,
       scaling |-> << 2, 2, 2 >>] }

\* the vector field managers of the scene, built once
Managers ==
    { << field, tr, VectorFieldManager(VectorField(field),
            Transformation(tr.translation, tr.rotation, tr.scaling)) >> :
        field \in Fields, tr \in FlowTransformations }

ManagerFor(field, tr) ==
    (CHOOSE m \in Managers : m[1] = field /\ m[2] = tr)[3]

CallManager == ManagerFor(call.field, call.transformation)

\* no second centre is as near as the nearest one
UniqueNearest(vfm, position_global) ==
    LET nearest == Query(vfm, position_global)
    IN  \A other \in DOMAIN vfm.kd_tree_global \ {nearest} :
            SquaredDistance(vfm.kd_tree_global[other], position_global)
                > SquaredDistance(vfm.kd_tree_global[nearest], position_global)

\* the sampled points: those with one nearest centre
FlowPositions ==
    { c \in [transformation : FlowTransformations,
             position_global : Coordinates \X Coordinates \X {0}] :
        UniqueNearest(ManagerFor("cavity", c.transformation),
                      c.position_global) }

FlowArguments ==
    { [field |-> field, transformation |-> c.transformation,
       position_global |-> c.position_global,
       interpolation_type |-> interpolation_type] :
        c \in FlowPositions, field \in Fields,
        interpolation_type \in Interpolations }

FlowCalls ==
    { [fn |-> fn, field |-> c.field, transformation |-> c.transformation,
       position_global |-> c.position_global,
       interpolation_type |-> c.interpolation_type, is_active |-> active] :
        c \in FlowArguments,
        fn \in {"VectorFieldManager.get_flow_by_position",
                "SensorFlowRate.process_new_time_step",
                "SceneManager.get_flow_by_position"},
        active \in BOOLEAN }

\* only the scene manager asks the object, which may be inactive
InitFlow ==
    /\ LibraryIdle
    /\ call \in FlowCalls
    /\ (call.fn # "SceneManager.get_flow_by_position") => call.is_active

VfmGetFlowByPosition ==
    /\ pc = "library"
    /\ call.fn = "VectorFieldManager.get_flow_by_position"
    /\ result = Pending
    /\ result' = get_flow_by_position(CallManager, call.position_global,
                                      call.interpolation_type)
    /\ UNCHANGED << systemVars, call >>

SceneManagerGetFlowByPosition ==
    /\ pc = "library"
    /\ call.fn = "SceneManager.get_flow_by_position"
    /\ result = Pending
    /\ result' = SceneGetFlowByPosition(CallManager, call.is_active,
                    call.position_global, call.interpolation_type)
    /\ UNCHANGED << systemVars, call >>

SensorFlowRateProcessNewTimeStep ==
    /\ pc = "library"
    /\ call.fn = "SensorFlowRate.process_new_time_step"
    /\ result = Pending
    /\ result' = SensorProcessNewTimeStep(CallManager, call.position_global,
                                          call.interpolation_type)
    /\ UNCHANGED << systemVars, call >>

NextFlow ==
    \/ VfmGetFlowByPosition
    \/ SceneManagerGetFlowByPosition
    \/ SensorFlowRateProcessNewTimeStep

SpecFlow == InitFlow /\ [][NextFlow]_vars

\* the centre's cell when position_global is the centre of a cell
IsCentre(cell) == AtCentre(CallManager, cell, call.position_global)

StoredFlowGlobal(cell) ==
    make_flow_global(CallManager,
                     Exact(CallManager.vector_field_local.flow[cell]))

\* C12: at a cell centre every interpolation policy returns the cell's
\* stored flow mapped through the direction matrix, so that the result
\* does not depend on the policy.
C12_CentreFlowTransformed ==
    \A cell \in Cells :
        (/\ pc = "library"
         /\ call.fn = "VectorFieldManager.get_flow_by_position"
         /\ call.interpolation_type # "NONE"
         /\ IsCentre(cell)
         /\ result # Pending)
            => result = Returned(StoredFlowGlobal(cell))

\* ---- the boundary rule of the modified Shepard policies
CallNearest == Query(CallManager, call.position_global)

CallFaces == CallManager.vector_field_local.boundary_faces[CallNearest]

LocalOf(position_global) ==
    apply_inverse_to_point(CallManager.transformation, position_global)

\* a modified Shepard call has returned for a point of a boundary cell
\* that is not its centre, and the cell's stored flow is a number
BoundaryRuleApplied ==
    /\ pc = "library"
    /\ call.fn = "VectorFieldManager.get_flow_by_position"
    /\ call.interpolation_type \in ModifiedShepards
    /\ result # Pending
    /\ CallManager.vector_field_local.at_boundary[CallNearest]
    /\ ~IsCentre(CallNearest)
    /\ ~HasNaN(CallManager.vector_field_local.flow[CallNearest])

ZeroFlow(flow) == \A i \in 1..3 : flow.num[i] = 0

\* |a| < |b| for two flows
MagnitudeLess(a, b) ==
    Dot(a.num, a.num) * b.den * b.den < Dot(b.num, b.num) * a.den * a.den

\* the result is zero for a negative minimum ratio and the cell's flow
\* times the minimum ratio otherwise, and zero on a face plane
MinimumRatioRule ==
    BoundaryRuleApplied =>
        /\ \E i \in 1..Len(CallFaces) :
            LET ratio == FaceRatio(LocalOf(call.position_global), CallFaces[i])
            IN  /\ \A j \in 1..Len(CallFaces) :
                    ~RatioLess(FaceRatio(LocalOf(call.position_global),
                                         CallFaces[j]), ratio)
                /\ result = Returned(make_flow_global(CallManager,
                        IF ratio.num < 0 THEN Exact(<< 0, 0, 0 >>)
                        ELSE Scaled(CallManager.vector_field_local
                                        .flow[CallNearest], ratio)))
        /\ (\E i \in 1..Len(CallFaces) :
                FaceRatio(LocalOf(call.position_global), CallFaces[i]).num = 0)
            => ZeroFlow(result.value)

\* one or two grid steps along a global axis
Steps ==
    { << d * k, 0, 0 >> : d \in {-1, 1}, k \in 1..2 }
        \cup { << 0, d * k, 0 >> : d \in {-1, 1}, k \in 1..2 }

\* q lies between the sampled point and the wall of face i, on the line
\* through the sampled point along the normal of that face, in the same
\* cell, and the sampled point is strictly inside the mesh
TowardWall(q, i) ==
    LET p_local == LocalOf(call.position_global)
        q_local == LocalOf(q)
        n == CallFaces[i].normalized_normal
        moved == Minus(q_local.num, p_local.num)
    IN  /\ Query(CallManager, q) = CallNearest
        /\ UniqueNearest(CallManager, q)
        /\ ~IsCentre(CallNearest)
        /\ ~AtCentre(CallManager, CallNearest, q)
        /\ \A k \in 1..3 : moved[k] = Dot(moved, n) * n[k]
        /\ RatioLess(FaceRatio(q_local, CallFaces[i]),
                     FaceRatio(p_local, CallFaces[i]))
        /\ FaceRatio(q_local, CallFaces[i]).num >= 0
        /\ \A j \in 1..Len(CallFaces) : FaceRatio(p_local, CallFaces[j]).num > 0

FlowAt(q) ==
    get_flow_by_position(CallManager, q, call.interpolation_type).value

\* face i gives the minimum ratio at the sampled point
GivesMinimum(i) ==
    \A j \in 1..Len(CallFaces) :
        ~RatioLess(FaceRatio(LocalOf(call.position_global), CallFaces[j]),
                   FaceRatio(LocalOf(call.position_global), CallFaces[i]))

\* C13 (as stated): under the modified Shepard policies a point of a
\* boundary cell gets zero flow for a negative minimum ratio and the
\* cell's flow times the minimum ratio otherwise; the flow is zero on a
\* face plane and its magnitude strictly decreases as the point moves
\* toward the wall along the wall normal.
C13_StrictDecayToWall ==
    /\ MinimumRatioRule
    /\ BoundaryRuleApplied =>
        \A step \in Steps : \A i \in 1..Len(CallFaces) :
            LET q == << call.position_global[1] + step[1],
                        call.position_global[2] + step[2], 0 >>
            IN  TowardWall(q, i) => MagnitudeLess(FlowAt(q), result.value)

\* C13 (amended): the same rule; the magnitude strictly decreases toward
\* a wall along its normal when that wall's face gives the minimum ratio
\* and the cell's flow is not zero.
C13_DecayToNearestWall ==
    /\ MinimumRatioRule
    /\ BoundaryRuleApplied =>
        \A step \in Steps : \A i \in 1..Len(CallFaces) :
            LET q == << call.position_global[1] + step[1],
                        call.position_global[2] + step[2], 0 >>
            IN  (/\ TowardWall(q, i)
                 /\ GivesMinimum(i)
                 /\ ~ZeroFlow(Exact(CallManager.vector_field_local
                                        .flow[CallNearest])))
                    => MagnitudeLess(FlowAt(q), result.value)

\* a point half-way between the centre of the corner cell and its wall
\* x = 0, with the wall one step away
C13_Witness ==
    /\ BoundaryRuleApplied
    /\ call.field = "cavity"
    /\ call.transformation.scaling = << 2, 2, 2 >>
    /\ call.transformation.rotation = << 0, 0, 0 >>
    /\ call.position_global = << 1, 2, 0 >>
    /\ CallNearest = 1
    /\ TowardWall(<< 0, 2, 0 >>, 1)
    /\ GivesMinimum(1)
    /\ ~ZeroFlow(result.value)
    /\ ZeroFlow(FlowAt(<< 0, 2, 0 >>))

\* C14: a sampled flow with a component that is not a number is never
\* handed on: both the scene manager (for the movement predictor) and the
\* flow rate sensor raise an error instead.
C14_NaNNeverReturned ==
    (/\ pc = "library"
     /\ call.fn \in {"SceneManager.get_flow_by_position",
                     "SensorFlowRate.process_new_time_step"}
     /\ result.status = "returned")
        => ~FlowIsNaN(result.value)

\* C15: with adaptive time stepping and the method EULER or RUNGE_KUTTA_4
\* the start fails before a component is notified of a time step and
\* before a molecule is moved; with a Runge-Kutta-Fehlberg method (and a
\* buffered molecule collection, which both loops demand) the adaptive
\* loop starts.
C15_AdaptiveNeedsEmbedded ==
    use_adaptive_time_stepping =>
        /\ integration_method \in {"EULER", "RUNGE_KUTTA_4"}
            => /\ pc \in {"start", "aborted"}
               /\ notify_rounds = 0
               /\ base_steps = 0
               /\ log = << >>
               /\ molecules = << >>
        /\ (/\ integration_method \in EmbeddedMethods
            /\ ~update_molecule_collection_immediately
            /\ pc # "start")
            => (pc = "notify" \/ notify_rounds >= 1)

C15_Witness ==
    /\ use_adaptive_time_stepping
    /\ integration_method = "RUNGE_KUTTA_4"
    /\ ~update_molecule_collection_immediately
    /\ pc = "aborted"
    /\ notify_rounds = 0

\* ----------------------------------------------- one call of predict
ZeroSample == [speed |-> 0, rough |-> 0]

PredictCalls ==
    [fn : {"MovementPredictor.predict"}, method : IntegrationMethods,
     position : {0, 3}, velocity : {-1, 0, 2}, object_id : {NoObject, 0},
     delta_time : {1, base_delta_time},
     sample : FlowSamples \cup {ZeroSample}, update_molecule : BOOLEAN]

InitPredict ==
    /\ LibraryIdle
    /\ call \in PredictCalls

MovementPredictorPredict ==
    /\ pc = "library"
    /\ call.fn = "MovementPredictor.predict"
    /\ result = Pending
    /\ result' = Returned(Predict(call.method,
                    NewMolecule(call.position, call.velocity, call.object_id),
                    call.delta_time, call.sample, call.update_molecule))
    /\ UNCHANGED << systemVars, call >>

NextPredict == MovementPredictorPredict

SpecPredict == InitPredict /\ [][NextPredict]_vars

\* C16: for every integration method, when the molecule has no object or
\* the flow is zero everywhere, predict returns the error 0 and the new
\* position position + velocity * delta_time.
C16_VelocityOnlyWithoutFlow ==
    (/\ pc = "library"
     /\ call.fn = "MovementPredictor.predict"
     /\ result # Pending
     /\ (call.object_id = NoObject \/ call.sample = ZeroSample))
        => /\ result.status = "returned"
           /\ result.value.error = 0
           /\ result.value.new_pos_global
                = call.position + call.velocity * call.delta_time

C16_Witness ==
    /\ pc = "library"
    /\ call.fn = "MovementPredictor.predict"
    /\ call.method = "RUNGE_KUTTA_FEHLBERG_4"
    /\ call.object_id = 0
    /\ call.sample = ZeroSample
    /\ call.position = 3
    /\ call.velocity = 2
    /\ call.delta_time = base_delta_time
    /\ result = Returned([molecule |-> NewMolecule(3, 2, 0),
                          new_pos_global |-> 3 + 2 * base_delta_time,
                          error |-> 0])

\* ------------------------------------ the embedded Runge-Kutta integrator
\* EmbeddedRungeKuttaMethod.compute with the tableau of RKFehlberg45.  The
\* code computes in binary floating point; here a number is a multiple of
\* 2^-FractionBits, and every quotient and product is rounded to the
\* nearest one (ties to even).
FractionBits == 8

One == Pow(2, FractionBits)

RoundDiv(n, d) ==
    LET q == n \div d
        r == n % d
    IN  IF 2 * r < d THEN q
        ELSE IF 2 * r > d THEN q + 1
        ELSE IF q % 2 = 0 THEN q ELSE q + 1

\* the float of the quotient n / d
Coef(f) == RoundDiv(f[1] * One, f[2])

Times(a, b) == RoundDiv(a * b, One)

A ==
    << << << 0, 1 >>, << 0, 1 >>, << 0, 1 >>, << 0, 1 >>, << 0, 1 >>, << 0, 1 >> >>,
       << << 1, 4 >>, << 0, 1 >>, << 0, 1 >>, << 0, 1 >>, << 0, 1 >>, << 0, 1 >> >>,
       << << 3, 32 >>, << 9, 32 >>, << 0, 1 >>, << 0, 1 >>, << 0, 1 >>, << 0, 1 >> >>,
       << << 1932, 2197 >>, << -7200, 2197 >>, << 7296, 2197 >>, << 0, 1 >>,
          << 0, 1 >>, << 0, 1 >> >>,
       << << 439, 216 >>, << -8, 1 >>, << 3680, 513 >>, << -845, 4104 >>,
          << 0, 1 >>, << 0, 1 >> >>,
       << << -8, 27 >>, << 2, 1 >>, << -3544, 2565 >>, << 1859, 4104 >>,
          << -11, 40 >>, << 0, 1 >> >> >>

BLowRowWrong ==
    << << << 16, 135 >>, << 0, 1 >>, << 6656, 12825 >>, << 28561, 56430 >>,
          << -9, 50 >>, << 2, 55 >> >>,
       << << 25, 216 >>, << 0, 1 >>, << 1408, 2565 >>, << 2197, 4104 >>,
          << 1, 5 >>, << 0, 1 >> >> >>

B ==
    << << << 16, 135 >>, << 0, 1 >>, << 6656, 12825 >>, << 28561, 56430 >>,
          << -9, 50 >>, << 2, 55 >> >>,
       << << 25, 216 >>, << 0, 1 >>, << 1408, 2565 >>, << 2197, 4104 >>,
          << -1, 5 >>, << 0, 1 >> >> >>

C == << << 0, 1 >>, << 1, 4 >>, << 3, 8 >>, << 12, 13 >>, << 1, 1 >>, << 1, 2 >> >>

\* func(t, y): the flow of the scene at a time and a position
Func(func, t, y) ==
    IF func.kind = "uniform" THEN func.flow
    ELSE IF func.kind = "shear" THEN << y[2], 0, 0 >>
    ELSE << t, 0, 0 >>

\* (self.A[i][:i].reshape(1, i).T * k).sum(): the sum over all elements
SumAK(i, k) ==
    SumOver([j \in 1..(i - 1) |->
                SumOver([c \in 1..3 |-> Times(Coef(A[i][j]), k[j][c])], 3)],
            i - 1)

\* the list k after the first i passes of the loop
RECURSIVE Stages(_, _, _, _, _)
Stages(func, t_old, y_old, dt, i) ==
    IF i = 0 THEN << >>
    ELSE LET k == Stages(func, t_old, y_old, dt, i - 1)
             sum_ak == SumAK(i, k)
         IN  Append(k, Func(func, t_old + Times(Coef(C[i]), dt),
                Array([c \in 1..3 |-> y_old[c] + Times(dt, sum_ak)])))

compute(func, t_old, y_old, dt) ==
    LET k == Stages(func, t_old, y_old, dt, Len(C))
        s == Array([c \in 1..3 |->
                SumOver([i \in 1..Len(C) |-> Times(Coef(B[1][i]), k[i][c])],
                        Len(C))])
        s_low == Array([c \in 1..3 |->
                SumOver([i \in 1..Len(C) |-> Times(Coef(B[2][i]), k[i][c])],
                        Len(C))])
        y_next == Array([c \in 1..3 |-> y_old[c] + Times(dt, s[c])])
        y_next_low == Array([c \in 1..3 |-> y_old[c] + Times(dt, s_low[c])])
    IN  [y_next |-> y_next, y_next_low |-> y_next_low,
         error |-> Minus(y_next, y_next_low)]

Funcs ==
    { [kind |-> "uniform", flow |-> flow] :
        flow \in { << 0, 0, 0 >>, << One, 0, 0 >>, << 77, -130, 5 >>,
                   << 301, 45, -222 >> } }
    \cup { [kind |-> "shear"], [kind |-> "pulsed"] }

ComputeCalls ==
    [fn : {"RKFehlberg45.compute"}, func : Funcs, t_old : {0, 3 * One},
     y_old : { << 0, 0, 0 >>, << 100, -40, 7 >> },
     dt : {One, 85, 13}]

InitCompute ==
    /\ LibraryIdle
    /\ call \in ComputeCalls

RKFehlberg45Compute ==
    /\ pc = "library"
    /\ call.fn = "RKFehlberg45.compute"
    /\ result = Pending
    /\ result' = Returned(compute(call.func, call.t_old, call.y_old, call.dt))
    /\ UNCHANGED << systemVars, call >>

NextCompute == RKFehlberg45Compute

SpecCompute == InitCompute /\ [][NextCompute]_vars

\* exact fractions, for the sums of the weight rows
RECURSIVE Gcd(_, _)
Gcd(a, b) == IF b = 0 THEN Abs(a) ELSE Gcd(b, a % b)

AddFraction(f, g) ==
    LET n == f[1] * g[2] + g[1] * f[2]
        d == f[2] * g[2]
    IN  << n \div Gcd(n, d), d \div Gcd(n, d) >>

RECURSIVE RowSum(_, _)
RowSum(row, n) ==
    IF n = 0 THEN << 0, 1 >> ELSE AddFraction(RowSum(row, n - 1), row[n])

UniformCall ==
    /\ pc = "library"
    /\ call.fn = "RKFehlberg45.compute"
    /\ call.func.kind = "uniform"
    /\ result # Pending

MaxBits == 6

\* util.is_power_of_two
is_power_of_two(n) == n # 0 /\ \E e \in 0..n : Pow(2, e) = n

\* int.bit_length
RECURSIVE bit_length(_)
bit_length(n) == IF n = 0 THEN 0 ELSE 1 + bit_length(n \div 2)

\* util.grouper: the chunks of n elements, the last one filled up
grouper(iterable, n, fillvalue) ==
    IF n = 0 THEN << >>
    ELSE [g \in 1..((Len(iterable) + n - 1) \div n) |->
            [i \in 1..n |->
                IF (g - 1) * n + i <= Len(iterable)
                THEN iterable[(g - 1) * n + i] ELSE fillvalue]]

RECURSIVE IntBase2LowFirst(_)
IntBase2LowFirst(digits) ==
    IF digits = << >> THEN 0
    ELSE (IF Head(digits) = "1" THEN 1 ELSE 0)
            + 2 * IntBase2LowFirst(Tail(digits))

\* int(''.join(bits_tuple), base=2)
RECURSIVE IntBase2(_)
IntBase2(digits) ==
    IF digits = << >> THEN 0
    ELSE 2 * IntBase2(SubSeq(digits, 1, Len(digits) - 1))
            + (IF digits[Len(digits)] = "1" THEN 1 ELSE 0)

\* n * '0'
Zeros(n) == [i \in 1..n |-> "0"]

RECURSIVE JoinSymbols(_, _, _)
JoinSymbols(groups, chips_per_symbol, n) ==
    IF n = 0 THEN << >>
    ELSE LET symbol_int == IntBase2(groups[n])
         IN  JoinSymbols(groups, chips_per_symbol, n - 1)
                \o Zeros(symbol_int) \o << "1" >>
                \o Zeros(chips_per_symbol - symbol_int - 1)

bitstream_to_ppm(bitstream, chips_per_symbol) ==
    IF ~is_power_of_two(chips_per_symbol) THEN Raised("AssertionError")
    ELSE LET bits_per_symbol == bit_length(chips_per_symbol) - 1
             groups == grouper(bitstream, bits_per_symbol, "0")
         IN  Returned(JoinSymbols(groups, chips_per_symbol, Len(groups)))

RECURSIVE Bitstreams(_)
Bitstreams(n) ==
    IF n = 0 THEN { << >> }
    ELSE Bitstreams(n - 1)
            \cup { Append(s, b) : s \in { t \in Bitstreams(n - 1) : Len(t) = n - 1 },
                                  b \in {"0", "1"} }

PPMCalls ==
    [fn : {"ModulationPPM.bitstream_to_ppm"}, bitstream : Bitstreams(MaxBits),
     chips_per_symbol : {1, 2, 3, 4, 8}]

InitPPM ==
    /\ LibraryIdle
    /\ call \in PPMCalls

BitstreamToPPM ==
    /\ pc = "library"
    /\ call.fn = "ModulationPPM.bitstream_to_ppm"
    /\ result = Pending
    /\ result' = bitstream_to_ppm(call.bitstream, call.chips_per_symbol)
    /\ UNCHANGED << systemVars, call >>

NextPPM == BitstreamToPPM

SpecPPM == InitPPM /\ [][NextPPM]_vars

\* the value of bit i (from 0) of group g (from 1) of b bits, the
\* bitstream being continued with zeros
BitOf(g, i, b) ==
    IF (g - 1) * b + i + 1 <= Len(call.bitstream)
            /\ call.bitstream[(g - 1) * b + i + 1] = "1"
    THEN 1 ELSE 0

GroupValue(g, b) == SumOver([i \in 1..b |-> BitOf(g, i - 1, b) * Pow(2, b - i)], b)

Value(n) == [kind |-> "value", value |-> n]

Str(s) == [kind |-> "str", text |-> s]

List(names) == [kind |-> "list", elements |-> names]

Dict(items) == [kind |-> "dict", items |-> items]

\* dict.pop(key, None) for each of the keys
PopKeys(d, names) == Restrict(d, DOMAIN d \ names)

\* dict.update
Update(d, other) ==
    [k \in DOMAIN d \cup DOMAIN other |->
        IF k \in DOMAIN other THEN other[k] ELSE d[k]]

\* to_read.get('uninherit', []), a str standing for the list of itself
KeysToUninherit(to_read) ==
    IF "uninherit" \notin DOMAIN to_read THEN {}
    ELSE IF to_read["uninherit"].kind = "str"
    THEN { to_read["uninherit"].text }
    ELSE { to_read["uninherit"].elements[i] :
            i \in 1..Len(to_read["uninherit"].elements) }

UpdateDictFlat(to_update, to_read, uninherit, clear_uninherit) ==
    Update(
        IF uninherit THEN PopKeys(to_update, KeysToUninherit(to_read))
        ELSE to_update,
        IF uninherit /\ clear_uninherit THEN PopKeys(to_read, {"uninherit"})
        ELSE to_read)

\* to_update as the call leaves it
RECURSIVE update_dict_recursively(_, _, _, _)
update_dict_recursively(to_update, to_read, uninherit, clear_uninherit) ==
    LET popped == IF uninherit
                  THEN PopKeys(to_update, KeysToUninherit(to_read))
                  ELSE to_update
        read == IF uninherit /\ clear_uninherit
                THEN PopKeys(to_read, {"uninherit"}) ELSE to_read
        recursively_updated_dict_keys ==
            { k \in DOMAIN read :
                /\ k \in DOMAIN popped
                /\ read[k].kind = "dict"
                /\ popped[k].kind = "dict" }
        merged == [k \in DOMAIN popped |->
            IF k \in recursively_updated_dict_keys
            THEN Dict(update_dict_recursively(popped[k].items, read[k].items,
                                              uninherit, TRUE))
            ELSE popped[k]]
    IN  Update(merged, PopKeys(read, recursively_updated_dict_keys))

\* ---- the dicts of the calls
Absent == [kind |-> "absent"]

\* the dict of the entries that are not absent
DictOf(entries) ==
    Restrict(entries, { k \in DOMAIN entries : entries[k] # Absent })

InnerDicts ==
    { DictOf([x |-> x, y |-> y, uninherit |-> u]) :
        x \in {Absent, Value(1), Value(2)},
        y \in {Absent, Value(3)},
        u \in {Absent, List(<< "y" >>)} }

OuterDicts ==
    { DictOf([components |-> c, seed |-> s, uninherit |-> u]) :
        c \in {Absent, Str("none")} \cup { Dict(d) : d \in InnerDicts },
        s \in {Absent, Value(42), Value(43)},
        u \in {Absent, List(<< "components" >>), Str("seed")} }

UpdateCalls ==
    [fn : {"update_dict_recursively"}, to_update : OuterDicts,
     to_read : OuterDicts,
     flags : { << TRUE, TRUE >>, << TRUE, FALSE >>, << FALSE, TRUE >> }]

InitUpdate ==
    /\ LibraryIdle
    /\ call \in UpdateCalls

UpdateDictRecursively ==
    /\ pc = "library"
    /\ call.fn = "update_dict_recursively"
    /\ result = Pending
    /\ result' = Returned(update_dict_recursively(call.to_update, call.to_read,
                                                  call.flags[1], call.flags[2]))
    /\ UNCHANGED << systemVars, call >>

NextUpdate == UpdateDictRecursively

SpecUpdate == InitUpdate /\ [][NextUpdate]_vars

\* the call update_dict_recursively(to_update, to_read) has returned
DefaultUpdateDone ==
    /\ pc = "library"
    /\ call.fn = "update_dict_recursively"
    /\ call.flags = << TRUE, TRUE >>
    /\ result # Pending

\* r is u without the keys listed in t, overridden by the entries of t
\* other than 'uninherit'; dicts under the same key are not followed
TakenOver(r, u, t, k) ==
    IF k \in DOMAIN t \ {"uninherit"} THEN r[k] = t[k] ELSE r[k] = u[k]

KeysAfter(u, t) ==
    (DOMAIN u \ KeysToUninherit(t)) \cup (DOMAIN t \ {"uninherit"})

BothDicts(u, t, k) ==
    /\ k \in DOMAIN u \ KeysToUninherit(t)
    /\ k \in DOMAIN t
    /\ u[k].kind = "dict"
    /\ t[k].kind = "dict"

MergedAsStated ==
    LET r == result.value
        u == call.to_update
        t == call.to_read
    IN  /\ DOMAIN r = KeysAfter(u, t)
        /\ \A k \in DOMAIN r :
            IF BothDicts(u, t, k)
            THEN /\ r[k].kind = "dict"
                 /\ DOMAIN r[k].items = KeysAfter(u[k].items, t[k].items)
                 /\ \A j \in DOMAIN r[k].items :
                        TakenOver(r[k].items, u[k].items, t[k].items, j)
            ELSE TakenOver(r, u, t, k)

NoUninheritIn(d) ==
    /\ "uninherit" \notin DOMAIN d
    /\ \A k \in DOMAIN d :
        d[k].kind = "dict" => "uninherit" \notin DOMAIN d[k].items

\* C20 (as stated): the keys listed under 'uninherit' of to_read are
\* first removed from to_update, dicts under the same key in both are
\* merged recursively, every other key of to_read overrides, keys only in
\* to_update are kept, and no 'uninherit' key remains in the result.
C20_NoUninheritRemains ==
    DefaultUpdateDone => (MergedAsStated /\ NoUninheritIn(result.value))

\* C20 (amended): the same merge; the 'uninherit' entry of to_read is not
\* taken over at a level that is merged, while an 'uninherit' key that
\* to_update had itself, or one inside a dict of to_read that is taken
\* over whole, remains.
C20_MergedWithUninherit ==
    DefaultUpdateDone =>
        /\ MergedAsStated
        /\ "uninherit" \in DOMAIN result.value
            => "uninherit" \in DOMAIN call.to_update
        /\ \A k \in DOMAIN result.value :
            (/\ result.value[k].kind = "dict"
             /\ "uninherit" \in DOMAIN result.value[k].items)
                => \/ /\ k \in DOMAIN call.to_update
                      /\ call.to_update[k].kind = "dict"
                      /\ "uninherit" \in DOMAIN call.to_update[k].items
                   \/ result.value[k] = call.to_read[k]

\* the merge of test_update_dict_recursively at one level: y is uninherited,
\* x and seed are overridden
C20_Witness ==
    /\ DefaultUpdateDone
    /\ call.to_update = DictOf([components |->
            Dict(DictOf([x |-> Value(1), y |-> Value(3), uninherit |-> Absent])),
         seed |-> Value(42), uninherit |-> Absent])
    /\ call.to_read = DictOf([components |->
            Dict(DictOf([x |-> Value(2), y |-> Absent,
                         uninherit |-> List(<< "y" >>)])),
         seed |-> Value(43), uninherit |-> Absent])
    /\ result.value = DictOf([components |->
            Dict(DictOf([x |-> Value(2), y |-> Absent, uninherit |-> Absent])),
         seed |-> Value(43), uninherit |-> Absent])

\* ------------------------------------------- components and notification
\* A bitstream generator, an on-off-keying modulation, an injector, a pump
\* and a logging component attached to a kernel that runs the legacy loop.
\* The molecules the injector spawns are counted, not moved.
MaxComponentSteps == 6

NotificationStages == << "BITSTREAMING", "MODULATION", "DESTRUCTING",
                         "SPAWNING", "PUMPING", "LOGGING" >>

\* the orders in which the five components were attached
AttachOrders ==
    { << "generator", "modulation", "injector", "pump", "logger" >>,
      << "logger", "pump", "injector", "modulation", "generator" >>,
      << "injector", "logger", "generator", "pump", "modulation" >> }

Repetitions == {1, 2}

BitSequences == { << 1 >>, << 1, 0 >>, << 1, 1 >>, << 0, 1 >>, << 1, 0, 1 >> }

\* injection_duration + pause_duration
SymbolDurations == { base_delta_time, 2 * base_delta_time,
                     4 * base_delta_time }

\* injection_volume_l / mlpmin_to_lps(injection_flow_mlpmin)
InjectionTimes == { base_delta_time \div 2, base_delta_time,
                    3 * base_delta_time }

\* the notification made in the p-th place of a round: the outer loop runs
\* over the stages, the inner loop over the components
NotificationAtComponentFirst(p, count) ==
    [stage |-> ((p - 1) % Len(NotificationStages)) + 1,
     component |-> ((p - 1) \div Len(NotificationStages)) + 1]

NotificationAt(p, count) ==
    [stage |-> ((p - 1) \div count) + 1,
     component |-> ((p - 1) % count) + 1]

Stage == NotificationStages[NotificationAt(notification, Len(components)).stage]

Component == components[NotificationAt(notification, Len(components)).component]

\* what a LOGGING component can see of the others
Snapshot(m, i, q) ==
    [is_injecting |-> m.is_injecting, turned_on |-> i.turned_on,
     burst_on |-> i.burst_on, is_active |-> q.is_active]

componentFrame == << configVars, managerVars, keys, idx, localVars, warned,
                     log, notify_rounds, base_steps, sim_time_before,
                     sim_time_initial, call, result, components,
                     elapsed_sub_time_steps >>

InitComponents ==
    /\ use_adaptive_time_stepping = FALSE
    /\ adaptive_time_max_error_threshold = Inf
    /\ adaptive_time_corrections_limit = 0
    /\ sim_time_limit = MaxComponentSteps * base_delta_time
    /\ update_molecule_collection_immediately = FALSE
    /\ integration_method = "RUNGE_KUTTA_4"
    /\ sim_time = 0
    /\ KernelCreated
    /\ pc = "notify"
    /\ call = NoCall
    /\ result = Pending
    /\ components \in AttachOrders
    /\ notification = 1
    /\ generator \in [start_time : {0}, repetitions : Repetitions,
                      bit_sequence : BitSequences, current_repetition : {0}]
    /\ modulation \in [symbol_duration : SymbolDurations, use_burst : BOOLEAN,
                       is_transmitting : {FALSE}, start_time : {Inf},
                       bitstream : {<< >>}, bitstream_duration : {0},
                       is_injecting : {FALSE},
                       most_recent_pulse_number : {-1}]
    /\ injector = [turned_on |-> FALSE, burst_on |-> FALSE]
    /\ pump \in [injection_time : InjectionTimes, is_active : {FALSE},
                 t_end_injection : {0}]
    /\ observed = [notified |-> << >>, transmissions |-> << >>,
                   injections |-> << >>, turn_ons |-> 0, turn_offs |-> 0,
                   spawned |-> 0,
                   logged |-> Snapshot(modulation, injector, pump)]

\* the call of process_new_time_step is over: the inner loop moves on
Notified(seen) ==
    /\ notification' = notification + 1
    /\ observed' = [seen EXCEPT
            !.notified = Append(@, << Stage, Component >>)]
    /\ pc' = IF notification = Len(NotificationStages) * Len(components)
             THEN "loop" ELSE "notify"
    /\ UNCHANGED << componentFrame, sim_time, elapsed_base_time_steps >>

\* Modulation.transmit_bitstream
transmit_bitstream(m, bitstream, time) ==
    [m EXCEPT !.is_transmitting = TRUE,
              !.start_time = time,
              !.bitstream = bitstream,
              !.bitstream_duration = m.symbol_duration * Len(bitstream)]

\* BitstreamGenerator.process_new_time_step and _start_stream_transmission
BitstreamGeneratorProcessNewTimeStep ==
    /\ pc = "notify"
    /\ Component = "generator"
    /\ IF /\ Stage = "BITSTREAMING"
          /\ sim_time > generator.start_time
          /\ generator.current_repetition = 0
       THEN /\ generator' = [generator EXCEPT !.current_repetition = @ + 1]
            /\ IF modulation.is_transmitting
               THEN /\ pc' = "aborted"
                    /\ UNCHANGED << modulation, notification, observed,
                                    componentFrame, sim_time,
                                    elapsed_base_time_steps >>
               ELSE /\ modulation' = transmit_bitstream(modulation,
                                        generator.bit_sequence, sim_time)
                    /\ Notified([observed EXCEPT
                            !.transmissions = Append(@, sim_time)])
       ELSE /\ UNCHANGED << generator, modulation >>
            /\ Notified(observed)
    /\ UNCHANGED << injector, pump >>

\* 0-based index of the pulse for the time
PulseNumber(m, time) == (time - m.start_time) \div m.symbol_duration

\* the conditions under which process_new_time_step starts an injection
MayStartInjectionAgain(m, time) ==
    /\ m.start_time + PulseNumber(m, time) * m.symbol_duration <= time
    /\ ~ m.is_injecting

MayStartInjection(m, time) ==
    /\ m.start_time + PulseNumber(m, time) * m.symbol_duration <= time
    /\ ~ m.is_injecting
    /\ PulseNumber(m, time) > m.most_recent_pulse_number

\* ObjectPumpVolume.start_injection
start_injection(q, time) ==
    [q EXCEPT !.t_end_injection = time + q.injection_time,
              !.is_active = TRUE]

\* ModulationOOK.process_new_time_step: nothing is done in another stage,
\* before the first and after the last symbol, and in a symbol that is '0'
ModulationOOKProcessNewTimeStep ==
    /\ pc = "notify"
    /\ Component = "modulation"
    /\ IF \/ Stage # "MODULATION"
          \/ modulation.start_time = Inf
          \/ sim_time > modulation.start_time + modulation.bitstream_duration
          \/ PulseNumber(modulation, sim_time) >= Len(modulation.bitstream)
          \/ modulation.bitstream[PulseNumber(modulation, sim_time) + 1] = 0
       THEN /\ UNCHANGED << modulation, injector, pump >>
            /\ Notified(observed)
       ELSE LET starts == MayStartInjection(modulation, sim_time)
                started == IF starts
                    THEN [modulation EXCEPT
                            !.is_injecting = TRUE,
                            !.most_recent_pulse_number =
                                PulseNumber(modulation, sim_time)]
                    ELSE modulation
                pumping == IF starts THEN start_injection(pump, sim_time)
                           ELSE pump
                ends == started.is_injecting /\ ~ pumping.is_active
            IN  /\ modulation' = [started EXCEPT
                        !.is_injecting = IF ends THEN FALSE ELSE @]
                /\ pump' = pumping
                /\ injector' = [injector EXCEPT
                        !.turned_on =
                            IF ends /\ ~ modulation.use_burst THEN FALSE
                            ELSE IF starts /\ ~ modulation.use_burst THEN TRUE
                            ELSE @,
                        !.burst_on =
                            IF starts /\ modulation.use_burst THEN TRUE
                            ELSE @]
                /\ Notified([observed EXCEPT
                        !.injections = IF starts
                            THEN Append(@, PulseNumber(modulation, sim_time))
                            ELSE @,
                        !.turn_ons = IF starts /\ ~ modulation.use_burst
                                     THEN @ + 1 ELSE @,
                        !.turn_offs = IF ends /\ ~ modulation.use_burst
                                      THEN @ + 1 ELSE @])
    /\ UNCHANGED generator

\* Injector.process_new_time_step
InjectorProcessNewTimeStep ==
    /\ pc = "notify"
    /\ Component = "injector"
    /\ IF Stage = "SPAWNING" /\ (injector.turned_on \/ injector.burst_on)
       THEN /\ injector' = [injector EXCEPT !.burst_on = FALSE]
            /\ Notified([observed EXCEPT !.spawned = @ + 1])
       ELSE /\ UNCHANGED injector
            /\ Notified(observed)
    /\ UNCHANGED << generator, modulation, pump >>

\* ObjectPumpVolume.process_new_time_step
ObjectPumpVolumeProcessNewTimeStep ==
    /\ pc = "notify"
    /\ Component = "pump"
    /\ pump' = IF /\ Stage = "PUMPING"
                  /\ pump.is_active
                  /\ sim_time >= pump.t_end_injection
               THEN [pump EXCEPT !.is_active = FALSE]
               ELSE pump
    /\ Notified(observed)
    /\ UNCHANGED << generator, modulation, injector >>

\* a component of the LOGGING stage
LoggerProcessNewTimeStep ==
    /\ pc = "notify"
    /\ Component = "logger"
    /\ Notified(IF Stage = "LOGGING"
                THEN [observed EXCEPT
                        !.logged = Snapshot(modulation, injector, pump)]
                ELSE observed)
    /\ UNCHANGED << generator, modulation, injector, pump >>

\* simulation_loop_legacy between two notification rounds
LegacyLoopStep ==
    /\ pc = "loop"
    /\ IF sim_time < sim_time_limit
       THEN /\ elapsed_base_time_steps' = elapsed_base_time_steps + 1
            /\ sim_time' = elapsed_base_time_steps' * base_delta_time
            /\ pc' = "notify"
            /\ notification' = 1
            /\ observed' = [observed EXCEPT !.notified = << >>]
       ELSE /\ pc' = "done"
            /\ UNCHANGED << sim_time, elapsed_base_time_steps, notification,
                            observed >>
    /\ UNCHANGED << componentFrame, generator, modulation, injector, pump >>

NextComponents ==
    \/ BitstreamGeneratorProcessNewTimeStep
    \/ ModulationOOKProcessNewTimeStep
    \/ InjectorProcessNewTimeStep
    \/ ObjectPumpVolumeProcessNewTimeStep
    \/ LoggerProcessNewTimeStep
    \/ LegacyLoopStep

SpecComponents == InitComponents /\ [][NextComponents]_vars

StageIndex(name) == CHOOSE s \in 1..Len(NotificationStages) :
                        NotificationStages[s] = name

\* the notification <<stage, component>> was made in this round
WasNotified(stage, component) ==
    \E i \in 1..Len(observed.notified) :
        observed.notified[i] = << stage, component >>

ModulationsFirst ==
    /\ WasNotified("SPAWNING", "injector")
        => WasNotified("MODULATION", "modulation")
    /\ WasNotified("PUMPING", "pump")
        => /\ WasNotified("MODULATION", "modulation")
           /\ WasNotified("SPAWNING", "injector")
    /\ WasNotified("LOGGING", "logger")
        => /\ WasNotified("SPAWNING", "injector")
           /\ WasNotified("PUMPING", "pump")

\* C21: in every notification round all components are notified for one
\* stage before any component is notified for the next, in the order
\* BITSTREAMING, MODULATION, DESTRUCTING, SPAWNING, PUMPING, LOGGING and
\* each stage in the order of attachment; so the modulation has handled
\* MODULATION before the injector handles SPAWNING and the pump PUMPING,
\* and a logger sees the state all of them leave behind.
C21_StageByStage ==
    pc \in {"notify", "loop"} =>
        /\ \A i \in 1..Len(observed.notified) :
            observed.notified[i] =
                << NotificationStages[((i - 1) \div Len(components)) + 1],
                   components[((i - 1) % Len(components)) + 1] >>
        /\ \A i, j \in 1..Len(observed.notified) :
            i < j => StageIndex(observed.notified[i][1])
                        <= StageIndex(observed.notified[j][1])
        /\ ModulationsFirst
        /\ pc = "loop" =>
            /\ Len(observed.notified)
                = Len(NotificationStages) * Len(components)
            /\ observed.logged = Snapshot(modulation, injector, pump)

\* a round in which the modulation started an injection is complete: the
\* injector has spawned and the logger has seen the pump active
C21_Witness ==
    /\ pc = "loop"
    /\ components[1] = "logger"
    /\ sim_time = base_delta_time
    /\ observed.injections = << 0 >>
    /\ observed.spawned = 1
    /\ observed.logged.is_active
    /\ observed.logged.turned_on

\* the run lasts long enough for every repetition of the bit sequence: a
\* transmission starts one base step after the start time at the latest
\* and lasts bitstream_duration, and the next starts a base step later
LongEnoughForRepetitions ==
    sim_time_limit >= generator.start_time + base_delta_time
        + generator.repetitions
            * (modulation.symbol_duration * Len(generator.bit_sequence)
               + base_delta_time)

\* C22: a BitstreamGenerator with repetitions = R hands its bit sequence
\* to the modulation R times during a sufficiently long run, and never
\* while a transmission is in progress.
C22_RepetitionsTransmitted ==
    /\ pc # "aborted"
    /\ (pc = "done" /\ LongEnoughForRepetitions)
        => /\ generator.current_repetition = generator.repetitions
           /\ Len(observed.transmissions) = generator.repetitions

\* the pump has been inactive for two notification rounds or more
PumpLongInactive ==
    /\ ~ pump.is_active
    /\ sim_time >= pump.t_end_injection + 2 * base_delta_time

\* C23: without bursts, every turn_on of the injector is followed by a
\* turn_off: once the pump is inactive, a later MODULATION notification
\* turns the injector off, whatever the bitstream and the ratio of
\* injection time to symbol duration.
C23_TurnOffFollowsTurnOn ==
    (pc = "done" /\ ~ modulation.use_burst /\ PumpLongInactive)
        => /\ ~ injector.turned_on
           /\ observed.turn_offs = observed.turn_ons

\* the symbol indices for which the modulation started a pump injection
InjectionsInOrder ==
    /\ \A i \in 1..Len(observed.injections) :
        /\ observed.injections[i] >= 0
        /\ observed.injections[i] < Len(modulation.bitstream)
        /\ modulation.bitstream[observed.injections[i] + 1] = 1
    /\ \A i, j \in 1..Len(observed.injections) :
        i < j => observed.injections[i] < observed.injections[j]

StartsInjection == observed'.injections # observed.injections

\* C24: during a transmission ModulationOOK starts a pump injection at
\* most once per symbol index, only for indices inside the bitstream whose
\* bit is '1', only with strictly increasing indices, and never while an
\* injection it started earlier is still marked as in progress.
C24_OneInjectionPerSymbol ==
    /\ [] InjectionsInOrder
    /\ [][StartsInjection =>
            /\ ~ modulation.is_injecting
            /\ modulation'.is_injecting
            /\ pump'.is_active
            /\ Len(observed'.injections) = Len(observed.injections) + 1]_vars

\* a '1' symbol goes on after its injection has ended, and no second
\* injection is started for it
C24_Witness ==
    /\ pc = "notify"
    /\ Stage = "SPAWNING"
    /\ observed.injections = << 0 >>
    /\ modulation.bitstream = << 1 >>
    /\ PulseNumber(modulation, sim_time) = 0
    /\ ~ modulation.is_injecting
    /\ PumpLongInactive

\* ------------------------------------------- where predict samples the flow
\* The calls of scene_manager.get_flow_by_position that one call of
\* MovementPredictor.predict makes for a molecule inside an object, each
\* with its time and position, and the position the flow moves it to.
Sample(t, y) == [t |-> t, y |-> y]

\* delta_time * flow
StepBy(dt, flow) == Array([c \in 1..3 |-> Times(dt, flow[c])])

VectorSum(a, b) == Array([c \in 1..3 |-> a[c] + b[c]])

Fraction(f, v) == Array([c \in 1..3 |-> Times(Coef(f), v[c])])

\* the call func makes in pass i of the loop of compute
StagePoint(func, t_old, y_old, dt, i) ==
    LET sum_ak == SumAK(i, Stages(func, t_old, y_old, dt, i - 1))
    IN  Sample(t_old + Times(Coef(C[i]), dt),
               Array([c \in 1..3 |-> y_old[c] + Times(dt, sum_ak)]))

predict_flow(method, func, time, position_global, dt) ==
    IF method \in {"EULER", "RUNGE_KUTTA_4"}
    THEN LET k1 == StepBy(dt,
                        Func(func, time, position_global))
             y2 == VectorSum(position_global, Fraction(<< 1, 2 >>, k1))
             k2 == StepBy(dt, Func(func, time, y2))
             y3 == VectorSum(position_global, Fraction(<< 1, 2 >>, k2))
             k3 == StepBy(dt, Func(func, time, y3))
             y4 == VectorSum(position_global, k3)
             k4 == StepBy(dt, Func(func, time, y4))
         IN  IF method = "EULER"
             THEN [samples |-> << Sample(time, position_global) >>,
                   new_pos_global |-> VectorSum(position_global, k1)]
             ELSE [samples |-> << Sample(time, position_global),
                                  Sample(time, y2), Sample(time, y3),
                                  Sample(time, y4) >>,
                   new_pos_global |->
                        VectorSum(VectorSum(VectorSum(VectorSum(
                            position_global,
                            Fraction(<< 1, 6 >>, k1)),
                            Fraction(<< 1, 3 >>, k2)),
                            Fraction(<< 1, 3 >>, k3)),
                            Fraction(<< 1, 6 >>, k4))]
    ELSE LET computed == compute(func, time, position_global, dt)
         IN  [samples |-> Array([i \in 1..Len(C) |->
                    StagePoint(func, time, position_global,
                               dt, i)]),
              new_pos_global |-> IF method = "RUNGE_KUTTA_FEHLBERG_4"
                                 THEN computed.y_next_low
                                 ELSE computed.y_next]

SamplingFuncs ==
    { [kind |-> "uniform", flow |-> << One, 0, 0 >>],
      [kind |-> "uniform", flow |-> << 77, -130, 5 >>],
      [kind |-> "shear"], [kind |-> "pulsed"] }

SamplingCalls ==
    [fn : {"MovementPredictor.predict: flow"}, method : IntegrationMethods,
     func : SamplingFuncs, sim_time : {0, 3 * One},
     position_global : { << 0, 0, 0 >>, << 100, -40, 7 >> },
     delta_time : {One, 2 * One, 85}]

InitSampling ==
    /\ LibraryIdle
    /\ call \in SamplingCalls

MovementPredictorPredictFlow ==
    /\ pc = "library"
    /\ call.fn = "MovementPredictor.predict: flow"
    /\ result = Pending
    /\ result' = Returned(predict_flow(call.method, call.func, call.sim_time,
                            call.position_global, call.delta_time))
    /\ UNCHANGED << systemVars, call >>

NextSampling == MovementPredictorPredictFlow

SpecSampling == InitSampling /\ [][NextSampling]_vars

\* k_i as the formulas of the method define it: delta_time times the flow
\* at the i-th sample (RUNGE_KUTTA_4), the flow at the i-th sample (embedded)
FlowAtSample(i) ==
    Func(call.func, result.value.samples[i].t, result.value.samples[i].y)

\* y0 + dt * sum over j < i of A[i][j] * k_j
TableauPoint(i) ==
    Array([c \in 1..3 |->
        call.position_global[c]
            + Times(call.delta_time,
                SumOver([j \in 1..(i - 1) |->
                            Times(Coef(A[i][j]), FlowAtSample(j)[c])],
                        i - 1))])

\* C25: predict samples the flow once for EULER and four times for
\* RUNGE_KUTTA_4, always at time t0, at y0, y0 + k1/2, y0 + k2/2 and
\* y0 + k3, and combines k1..k4 with the weights 1/6, 1/3, 1/3, 1/6; the
\* embedded methods sample six times, stage i at time t0 + C[i]*dt and at
\* y0 + dt * sum over j < i of A[i][j]*k_j.
C25_SamplePoints ==
    (/\ pc = "library"
     /\ call.fn = "MovementPredictor.predict: flow"
     /\ result # Pending)
        => LET samples == result.value.samples
               t0 == call.sim_time
               y0 == call.position_global
               K(i) == StepBy(call.delta_time, FlowAtSample(i))
           IN  IF call.method = "EULER"
               THEN /\ samples = << Sample(t0, y0) >>
                    /\ result.value.new_pos_global = VectorSum(y0, K(1))
               ELSE IF call.method = "RUNGE_KUTTA_4"
               THEN /\ Len(samples) = 4
                    /\ \A i \in 1..4 : samples[i].t = t0
                    /\ samples[1].y = y0
                    /\ samples[2].y
                        = VectorSum(y0, Fraction(<< 1, 2 >>, K(1)))
                    /\ samples[3].y
                        = VectorSum(y0, Fraction(<< 1, 2 >>, K(2)))
                    /\ samples[4].y = VectorSum(y0, K(3))
                    /\ \A c \in 1..3 :
                        result.value.new_pos_global[c]
                            = y0[c] + Times(Coef(<< 1, 6 >>), K(1)[c])
                                + Times(Coef(<< 1, 3 >>), K(2)[c])
                                + Times(Coef(<< 1, 3 >>), K(3)[c])
                                + Times(Coef(<< 1, 6 >>), K(4)[c])
               ELSE /\ Len(samples) = 6
                    /\ \A i \in 1..6 :
                        /\ samples[i].t
                            = t0 + Times(Coef(C[i]), call.delta_time)
                        /\ samples[i].y = TableauPoint(i)

\* C26: the adaptive advance of a molecule to the next base step
\* terminates, for every non-negative error threshold, safety factor and
\* corrections limit: every committed sub-step makes positive progress in
\* time, so that the local sub-time reaches the base-time boundary after
\* finitely many of them.
C26_PositiveProgress ==
    [][(pc = "attempt" /\ pc' = "advance")
            => sub_sim_time' > sub_sim_time]_vars

\* ------------------------------------------- Object: loading a vector field
\* A vector field is known by its OpenFOAM case and its number of cells.
MaxCells == 3

NoVectorFieldManager == [kind |-> "None"]

VectorFieldManagers ==
    [kind : {"VectorFieldManager"}, case : {"pump_off", "pump_on"},
     cells : 1..MaxCells]

\* len(self._vector_field_manager.get_mesh()) if self._vector_field_manager
\* is not None else None
MeshSize(object) ==
    IF object.vector_field_manager # NoVectorFieldManager
    THEN object.vector_field_manager.cells
    ELSE 0

\* Object.load_current_vector_field for the field the mesh manager loads:
\* how the call ends, and the object as it leaves it
load_current_vector_field(object, vector_field) ==
    IF ~ object.is_active
    THEN [outcome |-> Returned("None"), object |-> object]
    ELSE LET old_mesh_size == MeshSize(object)
             new_mesh_size == MeshSize(object)
         IN  IF /\ old_mesh_size # 0
                /\ new_mesh_size # 0
                /\ old_mesh_size # new_mesh_size
             THEN [outcome |-> Raised("AssertionError"), object |-> object]
             ELSE [outcome |-> Returned("None"),
                   object |-> [object EXCEPT
                                !.vector_field_manager = vector_field]]

LoadCalls ==
    [fn : {"Object.load_current_vector_field"},
     object : [is_active : BOOLEAN,
               vector_field_manager :
                    VectorFieldManagers \cup {NoVectorFieldManager}],
     vector_field : VectorFieldManagers]

InitLoad ==
    /\ LibraryIdle
    /\ call \in LoadCalls

ObjectLoadCurrentVectorField ==
    /\ pc = "library"
    /\ call.fn = "Object.load_current_vector_field"
    /\ result = Pending
    /\ result' = load_current_vector_field(call.object, call.vector_field)
    /\ UNCHANGED << systemVars, call >>

NextLoad == ObjectLoadCurrentVectorField

SpecLoad == InitLoad /\ [][NextLoad]_vars

\* C27: load_current_vector_field raises an AssertionError whenever the
\* newly loaded field has another number of cells than the field the
\* object held before, and then keeps the previous VectorFieldManager;
\* only a field of matching size replaces it.
C27_MismatchRaises ==
    (/\ pc = "library"
     /\ call.fn = "Object.load_current_vector_field"
     /\ result # Pending
     /\ call.object.is_active
     /\ call.object.vector_field_manager # NoVectorFieldManager)
        => IF call.object.vector_field_manager.cells = call.vector_field.cells
           THEN /\ result.outcome.status = "returned"
                /\ result.object.vector_field_manager = call.vector_field
           ELSE /\ result.outcome = Raised("AssertionError")
                /\ result.object.vector_field_manager
                    = call.object.vector_field_manager

\* SimulationKernel.get_elapsed_sub_time_steps
get_elapsed_sub_time_steps == elapsed_sub_time_steps

\* the molecules moved in the base step of the log: one predict in the
\* legacy loop, one advance of one sub-step or more in the adaptive loop
RECURSIVE MovedIn(_)
MovedIn(events) ==
    IF events = << >> THEN 0
    ELSE MovedIn(Tail(events))
            + (IF Head(events).ev \in {"predict", "advance"} THEN 1 ELSE 0)

\* C28: get_elapsed_sub_time_steps() counts the time steps taken,
\* adaptive sub-steps included: it is the number of committed position
\* updates, and so at least get_elapsed_base_time_steps() once a base
\* step with a live molecule has completed.
C28_SubStepsCounted ==
    (/\ pc = "notify"
     /\ log # << >>
     /\ log[Len(log)].ev = "clock"
     /\ MovedIn(log) > 0)
        => /\ get_elapsed_sub_time_steps >= MovedIn(log)
           /\ get_elapsed_sub_time_steps >= elapsed_base_time_steps

\* C29: apply_changes completes without error for every set of insertions
\* and deletions queued during one base step, also when a live molecule
\* was queued for destruction more than once (by two destructing sensors
\* whose zones both hold it): the molecule is removed once and the queued
\* insertions of the step are still applied.
C29_ApplyChangesCompletes ==
    [][(pc = "traverse" /\ idx > Len(keys) /\ pc' # pc)
            => /\ pc' = "clock"
               /\ \A i \in 1..Len(molecules_to_destroy) :
                    molecules_to_destroy[i] \notin DOMAIN molecules'
               /\ Cardinality(DOMAIN molecules')
                    = Cardinality(DOMAIN molecules
                        \ { molecules_to_destroy[i] :
                                i \in 1..Len(molecules_to_destroy) })
                      + Len(molecules_to_add)
               /\ total_counter' = total_counter + Len(molecules_to_add)]_vars

\* C30: predict called with update_molecule = False leaves the position
\* of the molecule unchanged, for every integration method and for
\* molecules with and without an object, so that a trial attempt of the
\* adaptive controller never moves a molecule.
C30_TrialLeavesMolecule ==
    (/\ pc = "library"
     /\ call.fn = "MovementPredictor.predict"
     /\ result # Pending
     /\ ~ call.update_molecule)
        => result.value.molecule
            = NewMolecule(call.position, call.velocity, call.object_id)

====
